---- MODULE Spec2Model ----
(***************************************************************************)
(* Model of the analytics cache / engine (analytics/services.py) and of    *)
(* the indicator computation service (indicators/services.py).             *)
(*                                                                         *)
(* Python values are tagged records [t |-> tag, v |-> payload].  A Python  *)
(* dict is a sequence of <<key, value>> pairs in insertion order with      *)
(* pairwise distinct string keys.                                          *)
(***************************************************************************)
EXTENDS Integers, Sequences, FiniteSets, TLC

VARIABLES
    now,        \* wall clock (hours), datetime.now()
    vizTable,   \* Visualization rows, id -> row
    ivTable,    \* IndicatorValue rows, newest first (Meta.ordering -calculated_at)
    cache,      \* AnalyticsCache rows, a sequence of records
    last,       \* trace of the last evaluate_visualization call
    kIn,        \* inputs of the fingerprint check: a pair of visualization specs
    kOut,       \* the two fingerprints computed for kIn
    svc,        \* IndicatorComputationService instance: [df, total_rows]
    batch,      \* list of indicator definitions given to the service
    res,        \* outcome of the last service call
    aIn,        \* input of the aggregation / formatting call
    aOut,       \* what that call returned
    surveys,    \* Survey table: row of survey id at index id
    surveyData, \* SurveyData table: rows [survey, sheet_name]
    sReply,     \* the last survey request and its response
    users,      \* User table: row of user id at index id
    uReply,     \* the last user request and its response
    cValues,    \* IndicatorValue table of the compute endpoint
    cReply,     \* the last compute request and its response
    procs,      \* concurrent evaluate requests: position and local variables
    applied     \* the upsert applied last: its number, data and expires_at

vars == <<now, vizTable, ivTable, cache, last, kIn, kOut, svc, batch, res, aIn, aOut,
          surveys, surveyData, sReply, users, uReply, cValues, cReply,
          procs, applied>>
engineVars == <<now, vizTable, ivTable, cache, last>>
keyVars == <<kIn, kOut>>
indVars == <<svc, batch, res>>
aggVars == <<aIn, aOut>>
surveyVars == <<surveys, surveyData, sReply>>
userVars == <<users, uReply>>
computeVars == <<cValues, cReply>>
raceVars == <<procs, applied>>
crudVars == <<surveyVars, userVars, computeVars, raceVars>>

SurveyIdle == surveys = <<>> /\ surveyData = <<>> /\ sReply = <<>>
UserIdle == users = <<>> /\ uReply = <<>>
ComputeIdle == cValues = <<>> /\ cReply = <<>>
RaceIdle == procs = <<>> /\ applied = <<>>
CrudIdle == SurveyIdle /\ UserIdle /\ ComputeIdle /\ RaceIdle

----------------------------------------------------------------------------
(* Bounds *)
MaxTime == 24
MaxHits == 2
MaxValues == 1
MaxRows == 2

(* timedelta(hours=24) *)
TTL == 24
TickStep == TTL \div 2

----------------------------------------------------------------------------
(* Python values *)
PyNone == [t |-> "none", v |-> 0]
PyInt(n) == [t |-> "int", v |-> n]
PyStr(s) == [t |-> "str", v |-> s]
PyList(s) == [t |-> "list", v |-> s]
PyDict(p) == [t |-> "dict", v |-> p]
EmptyDict == PyDict(<<>>)

Range(s) == {s[i] : i \in DOMAIN s}

DictKeys(d) == {d.v[i][1] : i \in DOMAIN d.v}
DictHas(d, k) == k \in DictKeys(d)
DictGet(d, k, default) ==
    IF DictHas(d, k)
    THEN d.v[CHOOSE i \in DOMAIN d.v : d.v[i][1] = k][2]
    ELSE default

(* bool(x) of a Python value *)
Truthy(x) ==
    CASE x.t = "none" -> FALSE
      [] x.t = "int" -> x.v # 0
      [] x.t = "str" -> x.v # ""
      [] x.t = "list" -> Len(x.v) > 0
      [] x.t = "dict" -> Len(x.v) > 0
      [] OTHER -> TRUE

(* Lexicographic order of the key strings that occur in the model. *)
KeyOrder == <<"columns", "data", "dimensions", "filters", "period", "region",
              "rows", "status", "type", "updated_at", "value", "viz_id">>
KeyRank(k) == CHOOSE i \in DOMAIN KeyOrder : KeyOrder[i] = k

RECURSIVE InsertSorted(_, _)
InsertSorted(p, s) ==
    IF s = <<>> THEN <<p>>
    ELSE IF KeyRank(p[1]) < KeyRank(Head(s)[1]) THEN <<p>> \o s
    ELSE <<Head(s)>> \o InsertSorted(p, Tail(s))

KeepItems(s) == s

(* the item order json.dumps uses under sort_keys=True *)
RECURSIVE SortItems(_)
SortItems(s) == IF s = <<>> THEN <<>> ELSE InsertSorted(Head(s), SortItems(Tail(s)))

RECURSIVE JoinStr(_, _)
JoinStr(parts, sep) ==
    IF parts = <<>> THEN ""
    ELSE IF Len(parts) = 1 THEN parts[1]
    ELSE parts[1] \o sep \o JoinStr(Tail(parts), sep)

(* json.dumps(x, sort_keys=True) *)
RECURSIVE JsonDumps(_)
JsonDumps(x) ==
    CASE x.t = "none" -> "null"
      [] x.t = "int" -> ToString(x.v)
      [] x.t = "str" -> "\"" \o x.v \o "\""
      [] x.t = "list" ->
            "[" \o JoinStr([i \in DOMAIN x.v |-> JsonDumps(x.v[i])], ", ") \o "]"
      [] x.t = "dict" ->
            LET items == SortItems(x.v)
            IN "{" \o JoinStr([i \in DOMAIN items |->
                        "\"" \o items[i][1] \o "\": " \o JsonDumps(items[i][2])], ", ")
                   \o "}"

(* datetime.isoformat(); the model's clock counts hours *)
IsoFormat(t) == "T+" \o ToString(t) \o "h"

(* hashlib.md5(s.encode()).hexdigest(), taken as injective *)
Md5Hex(s) == "md5:" \o s

KeyDataNoVersion(viz) ==
    PyDict(<< <<"viz_id", IF viz.id.t # "none" /\ Truthy(viz.id) THEN viz.id ELSE PyStr("preview")>>,
              <<"dimensions", viz.dimensions>>,
              <<"filters", viz.filters>> >>)

(* A visualization object: id and updated_at are PyNone until it is saved. *)
KeyDataOf(viz) ==
    PyDict(<< <<"viz_id", IF viz.id.t # "none" /\ Truthy(viz.id) THEN viz.id ELSE PyStr("preview")>>,
              <<"dimensions", viz.dimensions>>,
              <<"filters", viz.filters>>,
              <<"updated_at", IF viz.updated_at.t # "none"
                              THEN PyStr(IsoFormat(viz.updated_at.v))
                              ELSE PyStr("preview")>> >>)

_generate_cache_key(viz) == Md5Hex(JsonDumps(KeyDataOf(viz)))

----------------------------------------------------------------------------
(* Rational numbers stand for Python floats: [n |-> numerator, d |-> denominator > 0] *)
Abs(x) == IF x < 0 THEN -x ELSE x

RECURSIVE Gcd(_, _)
Gcd(a, b) == IF b = 0 THEN a ELSE Gcd(b, a % b)

Rat(n, d) ==
    LET g == Gcd(Abs(n), Abs(d))
        sgn == IF d < 0 THEN -1 ELSE 1
    IN IF n = 0 THEN [n |-> 0, d |-> 1]
       ELSE [n |-> sgn * (n \div g), d |-> sgn * (d \div g)]

RECURSIVE SumSeq(_)
SumSeq(s) == IF s = <<>> THEN 0 ELSE Head(s) + SumSeq(Tail(s))

----------------------------------------------------------------------------
(* AnalyticsEngine: fetch, aggregate, format *)

(* _fetch_data without the early return for an empty indicator list: every
   value of the project is selected *)
FetchAllWhenUnselected(project_id, dimensions, filters, table) ==
    LET data_items == DictGet(dimensions, "data", PyList(<<>>))
        wanted == {data_items.v[i].v : i \in DOMAIN data_items.v}
        Sel(r) == /\ ~Truthy(data_items) \/ r.indicator_id \in wanted
                  /\ r.indicator_project = project_id
                  /\ r.survey_project = project_id
    IN SelectSeq(table, Sel)

(* IndicatorValue.objects.filter(...).values(...) *)
_fetch_data(project_id, dimensions, filters, table) ==
    LET data_items == DictGet(dimensions, "data", PyList(<<>>))
        wanted == {data_items.v[i].v : i \in DOMAIN data_items.v}
        Sel(r) == /\ r.indicator_id \in wanted
                  /\ r.indicator_project = project_id
                  /\ r.survey_project = project_id
    IN IF ~Truthy(data_items) THEN <<>> ELSE SelectSeq(table, Sel)

(* str(item.get(dim, '')) *)
ItemGetStr(item, dim) ==
    CASE dim = "period" -> item.period
      [] dim = "indicator_id" -> ToString(item.indicator_id)
      [] dim = "survey__name" -> item.survey__name
      [] dim = "value" -> ToString(item.value)
      [] OTHER -> ""

_get_dimension_key(item, dims) ==
    JoinStr([i \in DOMAIN dims |-> ItemGetStr(item, dims[i].v)], "_")

PairIndex(pairs, k) ==
    IF \E i \in DOMAIN pairs : pairs[i][1] = k
    THEN CHOOSE i \in DOMAIN pairs : pairs[i][1] = k
    ELSE 0

(* first loop of _aggregate_data: group the values into cells, in first-seen order *)
RECURSIVE GroupCells(_, _, _, _)
GroupCells(data, rows, columns, acc) ==
    IF data = <<>> THEN acc
    ELSE LET item == Head(data)
             row_key == _get_dimension_key(item, rows)
             col_key == _get_dimension_key(item, columns)
             key == row_key \o "_" \o col_key
             i == PairIndex(acc, key)
             acc2 == IF i = 0
                     THEN Append(acc, <<key, [row |-> row_key, column |-> col_key,
                                              values |-> <<item.value>>]>>)
                     ELSE [acc EXCEPT ![i] = <<key, [acc[i][2] EXCEPT
                                              !.values = Append(@, item.value)]>>]
         IN GroupCells(Tail(data), rows, columns, acc2)

AggregateDroppingBlankKeys(data, layout) ==
    IF data = <<>> THEN EmptyDict
    ELSE LET rows == DictGet(layout, "rows", PyList(<<>>)).v
             columns == DictGet(layout, "columns", PyList(<<>>)).v
             Keyed(item) == _get_dimension_key(item, rows) # ""
             grouped == GroupCells(SelectSeq(data, Keyed), rows, columns, <<>>)
         IN PyDict([i \in DOMAIN grouped |->
                <<grouped[i][1],
                  [row |-> grouped[i][2].row,
                   column |-> grouped[i][2].column,
                   values |-> grouped[i][2].values,
                   sum |-> SumSeq(grouped[i][2].values),
                   avg |-> IF Len(grouped[i][2].values) > 0
                           THEN Rat(SumSeq(grouped[i][2].values), Len(grouped[i][2].values))
                           ELSE Rat(0, 1),
                   count |-> Len(grouped[i][2].values)]>>])

_aggregate_data(data, layout) ==
    IF data = <<>> THEN EmptyDict
    ELSE LET rows == DictGet(layout, "rows", PyList(<<>>)).v
             columns == DictGet(layout, "columns", PyList(<<>>)).v
             grouped == GroupCells(data, rows, columns, <<>>)
         IN PyDict([i \in DOMAIN grouped |->
                <<grouped[i][1],
                  [row |-> grouped[i][2].row,
                   column |-> grouped[i][2].column,
                   values |-> grouped[i][2].values,
                   sum |-> SumSeq(grouped[i][2].values),
                   avg |-> IF Len(grouped[i][2].values) > 0
                           THEN Rat(SumSeq(grouped[i][2].values), Len(grouped[i][2].values))
                           ELSE Rat(0, 1),
                   count |-> Len(grouped[i][2].values)]>>])

ChartTypes == {"column_chart", "bar_chart", "line_chart", "area_chart"}

DictSetDefault(d, k, val) == IF DictHas(d, k) THEN d ELSE PyDict(Append(d.v, <<k, val>>))

_format_for_chart(data, chart_type, options) ==
    PyDict(<< <<"type", PyStr(chart_type)>>,
              <<"data", PyList([i \in DOMAIN data.v |->
                            [name |-> data.v[i][2].row,
                             value |-> data.v[i][2].sum,
                             average |-> data.v[i][2].avg,
                             count |-> data.v[i][2].count]])>>,
              <<"options", DictSetDefault(DictSetDefault(options, "xAxisLabel", PyStr("Period")),
                                          "yAxisLabel", PyStr("Value"))>> >>)

(* Code-point order of the dimension keys that occur in the model. *)
StrOrder == <<"", "1", "1_Current", "2", "2_Current", "Current", "Current_1", "Current_2">>
StrRank(k) == CHOOSE i \in DOMAIN StrOrder : StrOrder[i] = k

(* sorted(list(set_of_strings)) *)
RECURSIVE SortedStrs(_)
SortedStrs(S) ==
    IF S = {} THEN <<>>
    ELSE LET m == CHOOSE x \in S : \A y \in S : StrRank(x) <= StrRank(y)
         IN <<m>> \o SortedStrs(S \ {m})

_format_for_pivot(data, options) ==
    PyDict(<< <<"rows", PyList(SortedStrs({data.v[i][2].row : i \in DOMAIN data.v}))>>,
              <<"columns", PyList(SortedStrs({data.v[i][2].column : i \in DOMAIN data.v}))>>,
              <<"data", data>>,
              <<"options", options>> >>)

_format_for_pie(data, options) ==
    PyDict(<< <<"type", PyStr("pie_chart")>>,
              <<"data", PyList([i \in DOMAIN data.v |->
                            [name |-> data.v[i][2].row, value |-> data.v[i][2].sum]])>>,
              <<"options", options>> >>)

FormatAveragingCells(data, options) ==
    LET total_sum == SumSeq([i \in DOMAIN data.v |-> data.v[i][2].sum])
        total_count == Len(data.v)
        avg_value == IF total_count > 0 THEN Rat(total_sum, total_count) ELSE Rat(0, 1)
    IN PyDict(<< <<"type", PyStr("single_value")>>,
                 <<"data", [value |-> total_sum,
                            label |-> DictGet(options, "label", PyStr("Total")),
                            trend |-> DictGet(options, "trend", PyInt(0)),
                            target |-> DictGet(options, "target_value", PyNone),
                            average |-> avg_value]>>,
                 <<"options", options>> >>)

_format_for_single_value(data, options) ==
    LET total_sum == SumSeq([i \in DOMAIN data.v |-> data.v[i][2].sum])
        total_count == SumSeq([i \in DOMAIN data.v |-> data.v[i][2].count])
        avg_value == IF total_count > 0 THEN Rat(total_sum, total_count) ELSE Rat(0, 1)
    IN PyDict(<< <<"type", PyStr("single_value")>>,
                 <<"data", [value |-> total_sum,
                            label |-> DictGet(options, "label", PyStr("Total")),
                            trend |-> DictGet(options, "trend", PyInt(0)),
                            target |-> DictGet(options, "target_value", PyNone),
                            average |-> avg_value]>>,
                 <<"options", options>> >>)

_format_for_visualization(data, viz_type, display_options) ==
    IF viz_type \in ChartTypes THEN _format_for_chart(data, viz_type, display_options)
    ELSE IF viz_type = "pivot_table" THEN _format_for_pivot(data, display_options)
    ELSE IF viz_type = "pie_chart" THEN _format_for_pie(data, display_options)
    ELSE IF viz_type = "single_value" THEN _format_for_single_value(data, display_options)
    ELSE data

----------------------------------------------------------------------------
(* AnalyticsCache store: a sequence of rows
   [cache_key, project_id, visualization, data, expires_at, hit_count] *)

MatchesAtOrAfter(c, key, t) == {i \in DOMAIN c : c[i].cache_key = key /\ c[i].expires_at >= t}

(* rows selected by filter(cache_key=key, expires_at__gt=t) *)
Matches(c, key, t) == {i \in DOMAIN c : c[i].cache_key = key /\ c[i].expires_at > t}

GetPurgingStale(c, key, t) ==
    LET m == Matches(c, key, t)
        Keep(r) == r.cache_key # key
    IN IF m = {} THEN [ret |-> PyNone, cache |-> SelectSeq(c, Keep), raised |-> "", found |-> FALSE]
       ELSE LET i == CHOOSE j \in m : TRUE
            IN [ret |-> c[i].data, cache |-> [c EXCEPT ![i].hit_count = @ + 1],
                raised |-> "", found |-> TRUE]

(* AnalyticsCache.objects.get(cache_key=.., expires_at__gt=now); hit_count += 1; save().
   Result: ret is the returned value, cache the store afterwards, raised the
   exception that escapes (MultipleObjectsReturned is not caught). *)
_get_from_cache(c, key, t) ==
    LET m == Matches(c, key, t)
    IN IF m = {} THEN [ret |-> PyNone, cache |-> c, raised |-> "", found |-> FALSE]
       ELSE IF Cardinality(m) > 1
            THEN [ret |-> PyNone, cache |-> c, raised |-> "MultipleObjectsReturned", found |-> FALSE]
       ELSE LET i == CHOOSE j \in m : TRUE
            IN [ret |-> c[i].data,
                cache |-> [c EXCEPT ![i].hit_count = @ + 1],
                raised |-> "",
                found |-> TRUE]

AlwaysCreate(c, key, defaults) ==
    Append(c, [cache_key |-> key, project_id |-> defaults.project_id,
               visualization |-> defaults.visualization, data |-> defaults.data,
               expires_at |-> defaults.expires_at, hit_count |-> 0])

(* AnalyticsCache.objects.update_or_create(cache_key=key, defaults=...) *)
update_or_create(c, key, defaults) ==
    LET m == {i \in DOMAIN c : c[i].cache_key = key}
    IN IF m = {}
       THEN Append(c, [cache_key |-> key, project_id |-> defaults.project_id,
                       visualization |-> defaults.visualization, data |-> defaults.data,
                       expires_at |-> defaults.expires_at, hit_count |-> 0])
       ELSE LET i == CHOOSE j \in m : TRUE
            IN [c EXCEPT ![i].project_id = defaults.project_id,
                         ![i].visualization = defaults.visualization,
                         ![i].data = defaults.data,
                         ![i].expires_at = defaults.expires_at]

SaveAlways(c, project_id, key, data, viz, t) ==
    update_or_create(c, key, [project_id |-> project_id, visualization |-> viz.id.v,
                              data |-> data, expires_at |-> t + TTL])

_save_to_cache(c, project_id, key, data, viz, t) ==
    IF viz.id.t = "none" THEN c
    ELSE update_or_create(c, key, [project_id |-> project_id,
                                   visualization |-> viz.id.v,
                                   data |-> data,
                                   expires_at |-> t + TTL])

(* evaluate_visualization run by an engine built for project_id: the lookup
   reads the clock at t1, the store (if reached) reads it at t2 >= t1. *)
evaluate_visualization(project_id, viz, c, table, t1, t2) ==
    LET cache_key == _generate_cache_key(viz)
        got == _get_from_cache(c, cache_key, t1)
        data == _fetch_data(project_id, viz.dimensions, viz.filters, table)
        aggregated == _aggregate_data(data, viz.layout)
        formatted == _format_for_visualization(aggregated, viz.visualization_type,
                                               viz.display_options)
        base == [cache_key |-> cache_key,
                 afterGet |-> got.cache, cached |-> got.ret, found |-> got.found,
                 raised |-> got.raised, computed |-> FALSE,
                 ret |-> got.ret, cache |-> got.cache]
    IN IF got.raised # "" THEN base
       ELSE IF Truthy(got.ret) THEN base
       ELSE [base EXCEPT !.computed = TRUE,
                         !.ret = formatted,
                         !.cache = _save_to_cache(got.cache, project_id, cache_key,
                                                  formatted, viz, t2)]

----------------------------------------------------------------------------
(* Fixtures: projects, indicators and surveys are rows kept by the CRUD layer. *)
IndicatorProject == (1 :> 1)
SurveyProject == (1 :> 1) @@ (2 :> 1)
VizIds == {1}
IndicatorIds == DOMAIN IndicatorProject
SurveyIds == DOMAIN SurveyProject
ValueChoices == {10}

DataOf(ids) == PyDict(<< <<"data", PyList(ids)>> >>)

VizTypeChoices == {"column_chart", "gauge"}
DimensionChoices == {DataOf(<<PyInt(1)>>)}
LayoutChoices == {PyDict(<< <<"rows", PyList(<<PyStr("period")>>)>> >>)}

(* request bodies accepted by VisualizationSerializer *)
VizConfigs ==
    [project_id : {1},
     visualization_type : VizTypeChoices,
     dimensions : DimensionChoices,
     filters : {EmptyDict},
     layout : LayoutChoices,
     display_options : {EmptyDict}]

(* the temporary Visualization object built from validated_data: unsaved *)
UnsavedViz(cfg) ==
    [id |-> PyNone, updated_at |-> PyNone, is_active |-> TRUE,
     project_id |-> cfg.project_id, visualization_type |-> cfg.visualization_type,
     dimensions |-> cfg.dimensions, filters |-> cfg.filters, layout |-> cfg.layout,
     display_options |-> cfg.display_options]

NoCall == [op |-> "none"]

(* what the last evaluate_visualization call saw and did *)
TraceOf(r, op) ==
    [op |-> op, cache_key |-> r.cache_key, found |-> r.found, cached |-> r.cached,
     afterGet |-> r.afterGet, raised |-> r.raised, computed |-> r.computed, ret |-> r.ret]

EngineInit ==
    /\ now = 0
    /\ vizTable = <<>>
    /\ ivTable = <<>>
    /\ cache = <<>>
    /\ last = NoCall

(* time passes *)
Tick ==
    /\ now + TickStep <= MaxTime
    /\ now' = now + TickStep
    /\ last' = NoCall
    /\ UNCHANGED <<vizTable, ivTable, cache, keyVars, indVars, aggVars, crudVars>>

(* POST /visualizations/: serializer.save() inserts a row, auto_now stamps updated_at *)
CreateVisualization(cfg) ==
    /\ Len(vizTable) + 1 \in VizIds
    /\ vizTable' = Append(vizTable,
            [UnsavedViz(cfg) EXCEPT !.id = PyInt(Len(vizTable) + 1),
                                    !.updated_at = PyInt(now)])
    /\ last' = NoCall
    /\ UNCHANGED <<now, ivTable, cache, keyVars, indVars, aggVars, crudVars>>

(* PUT /visualizations/{id}/: serializer.save() rewrites the row, auto_now
   stamps updated_at; two saves of one row never carry the same timestamp. *)
UpdateVisualization(id, cfg) ==
    /\ id \in DOMAIN vizTable
    /\ now > vizTable[id].updated_at.v
    /\ vizTable' = [vizTable EXCEPT ![id] =
            [UnsavedViz(cfg) EXCEPT !.id = PyInt(id), !.updated_at = PyInt(now)]]
    /\ last' = NoCall
    /\ UNCHANGED <<now, ivTable, cache, keyVars, indVars, aggVars, crudVars>>

(* IndicatorValue.objects.create(indicator, survey, value, period='Current');
   unique_together (indicator, survey, period) *)
CreateIndicatorValue(ind, survey, value) ==
    /\ Len(ivTable) < MaxValues
    /\ ~\E i \in DOMAIN ivTable :
            ivTable[i].indicator_id = ind /\ ivTable[i].survey = survey
    /\ ivTable' = <<[indicator_id |-> ind, indicator_project |-> IndicatorProject[ind],
                     survey |-> survey, survey_project |-> SurveyProject[survey],
                     survey__name |-> ToString(survey),
                     value |-> value, period |-> "Current", calculated_at |-> now]>>
                  \o ivTable
    /\ last' = NoCall
    /\ UNCHANGED <<now, vizTable, cache, keyVars, indVars, aggVars, crudVars>>

HitsWithin(c) == \A i \in DOMAIN c : c[i].hit_count <= MaxHits

(* GET /visualizations/{id}/evaluate/ *)
Evaluate(id) ==
    /\ id \in DOMAIN vizTable
    /\ vizTable[id].is_active
    /\ LET viz == vizTable[id]
           r == evaluate_visualization(viz.project_id, viz, cache, ivTable, now, now)
       IN /\ HitsWithin(r.cache)
          /\ Len(r.cache) <= MaxRows
          /\ cache' = r.cache
          /\ now' = now
          /\ last' = TraceOf(r, "evaluate")
    /\ UNCHANGED <<vizTable, ivTable, keyVars, indVars, aggVars, crudVars>>

(* POST /visualizations/preview/ *)
Preview(cfg) ==
    /\ LET viz == UnsavedViz(cfg)
           r == evaluate_visualization(viz.project_id, viz, cache, ivTable, now, now)
       IN /\ cache' = r.cache
          /\ now' = now
          /\ last' = TraceOf(r, "preview")
    /\ UNCHANGED <<vizTable, ivTable, keyVars, indVars, aggVars, crudVars>>

KeyIdle == kIn = <<>> /\ kOut = <<>>
IndIdle == svc = <<>> /\ batch = <<>> /\ res = <<>>
AggIdle == aIn = <<>> /\ aOut = <<>>

Init == EngineInit /\ KeyIdle /\ IndIdle /\ AggIdle /\ CrudIdle

Next ==
    \/ Tick
    \/ \E cfg \in VizConfigs : CreateVisualization(cfg)
    \/ \E id \in VizIds, cfg \in VizConfigs : UpdateVisualization(id, cfg)
    \/ \E ind \in IndicatorIds, s \in SurveyIds, v \in ValueChoices :
            CreateIndicatorValue(ind, s, v)
    \/ \E id \in VizIds : Evaluate(id)
    \/ \E cfg \in VizConfigs : Preview(cfg)

Spec == Init /\ [][Next]_vars

----------------------------------------------------------------------------
(* Fingerprints of pairs of visualization objects *)

PeriodA == PyDict(<< <<"type", PyStr("relative")>>, <<"value", PyStr("LAST_12_MONTHS")>> >>)
PeriodB == PyDict(<< <<"value", PyStr("LAST_12_MONTHS")>>, <<"type", PyStr("relative")>> >>)

KeyDimensionChoices ==
    { PyDict(<< <<"data", PyList(<<PyInt(1)>>)>>, <<"period", PeriodA>> >>),
      PyDict(<< <<"period", PeriodA>>, <<"data", PyList(<<PyInt(1)>>)>> >>),
      PyDict(<< <<"data", PyList(<<PyInt(1)>>)>>, <<"period", PeriodB>> >>),
      PyDict(<< <<"data", PyList(<<PyInt(2)>>)>>, <<"period", PeriodA>> >>),
      DataOf(<<PyInt(1)>>) }

KeyFilterChoices ==
    { EmptyDict,
      PyDict(<< <<"region", PyStr("North")>>, <<"status", PyStr("Active")>> >>),
      PyDict(<< <<"status", PyStr("Active")>>, <<"region", PyStr("North")>> >>) }

KeyLayoutChoices ==
    { PyDict(<< <<"rows", PyList(<<PyStr("period")>>)>> >>),
      PyDict(<< <<"columns", PyList(<<PyStr("period")>>)>> >>) }

(* saved objects carry an id and the timestamp of their last save, unsaved ones neither *)
KeyIdentityChoices ==
    { <<PyInt(1), PyInt(0)>>, <<PyInt(1), PyInt(TickStep)>>, <<PyInt(2), PyInt(0)>>,
      <<PyNone, PyNone>> }

KeyVizChoices ==
    { [id |-> idn[1], updated_at |-> idn[2], dimensions |-> dm, filters |-> f, layout |-> l] :
        idn \in KeyIdentityChoices, dm \in KeyDimensionChoices,
        f \in KeyFilterChoices, l \in KeyLayoutChoices }

(* The mapping a Python value denotes: dict insertion order is forgotten. *)
RECURSIVE ToMap(_)
ToMap(x) ==
    CASE x.t = "dict" ->
            [t |-> "dict",
             v |-> [k \in DictKeys(x) |-> ToMap(DictGet(x, k, PyNone))]]
      [] x.t = "list" -> [t |-> "list", v |-> [i \in DOMAIN x.v |-> ToMap(x.v[i])]]
      [] OTHER -> x

EngineIdle == now = 0 /\ vizTable = <<>> /\ ivTable = <<>> /\ cache = <<>> /\ last = NoCall

KeyInit ==
    /\ kIn \in KeyVizChoices \X KeyVizChoices
    /\ kOut = <<>>

(* _generate_cache_key called on both objects *)
GenerateKeys ==
    /\ kOut = <<>>
    /\ kOut' = <<_generate_cache_key(kIn[1]), _generate_cache_key(kIn[2])>>
    /\ UNCHANGED <<kIn, engineVars, indVars, aggVars, crudVars>>

(* a later pair of calls on the same objects, in the other order *)
GenerateKeysAgain ==
    /\ kOut # <<>>
    /\ kOut' = <<_generate_cache_key(kIn[2]), _generate_cache_key(kIn[1])>>
    /\ UNCHANGED <<kIn, engineVars, indVars, aggVars, crudVars>>

SpecKeyInit == KeyInit /\ EngineIdle /\ IndIdle /\ AggIdle /\ CrudIdle
SpecKeyNext == GenerateKeys \/ GenerateKeysAgain
SpecKey == SpecKeyInit /\ [][SpecKeyNext]_vars

SameIdentity == kIn[1].id = kIn[2].id
SameVersion == kIn[1].updated_at = kIn[2].updated_at
SameDimensions == ToMap(kIn[1].dimensions) = ToMap(kIn[2].dimensions)
SameFilters == ToMap(kIn[1].filters) = ToMap(kIn[2].filters)
SameLayout == ToMap(kIn[1].layout) = ToMap(kIn[2].layout)

(* C6 as claimed: two objects of one identity that differ in dimensions,
   filters, layout or updated_at get different fingerprints. *)
C6_AnyDifferenceChangesKey ==
    (kOut # <<>> /\ SameIdentity
        /\ ~(SameDimensions /\ SameFilters /\ SameLayout /\ SameVersion))
    => kOut[1] # kOut[2]

(* C6 amended: two objects of one identity that differ in dimensions, filters
   or updated_at get different fingerprints; the layout is not part of the
   fingerprint. *)
C6_KeyedDifferenceChangesKey ==
    (kOut # <<>> /\ SameIdentity /\ ~(SameDimensions /\ SameFilters /\ SameVersion))
    => kOut[1] # kOut[2]

C6_Witness ==
    /\ kOut # <<>> /\ SameIdentity /\ kIn[1].id # PyNone
    /\ SameDimensions /\ SameFilters /\ SameLayout /\ ~SameVersion
    /\ kOut[1] # kOut[2]

(* C7: the same identity, dimensions, filters and updated_at give the same
   fingerprint on every call, whatever the insertion order of the keys of the
   dimensions and filters mappings, nested ones included. *)
C7_KeyIgnoresInsertionOrder ==
    (kOut # <<>> /\ SameIdentity /\ SameVersion /\ SameDimensions /\ SameFilters)
    => kOut[1] = kOut[2]

C7_Witness ==
    /\ kOut # <<>> /\ SameIdentity /\ SameVersion /\ SameDimensions /\ SameFilters
    /\ DictGet(kIn[1].dimensions, "period", PyNone) # DictGet(kIn[2].dimensions, "period", PyNone)
    /\ kIn[1].filters # kIn[2].filters
    /\ kOut[1] = kOut[2]

----------------------------------------------------------------------------
(* Properties of the cache and the engine *)

IsCall == last.op \in {"evaluate", "preview"}
KeyRows(c, key) == {i \in DOMAIN c : c[i].cache_key = key}

(* C1: evaluate on a saved visualization returns the stored payload of an
   unexpired entry without fetching, aggregating, formatting or storing, for
   every payload value including the empty mapping; without such an entry it
   computes, stores the result under the fingerprint and returns it. *)
C1_HitSkipsCompute ==
    last.op = "evaluate" =>
        IF last.found
        THEN ~last.computed /\ last.ret = last.cached
        ELSE /\ last.computed
             /\ \E i \in KeyRows(cache, last.cache_key) : cache[i].data = last.ret

(* The failing case of C1: a found entry whose payload is the empty mapping. *)
C1_EmptyPayloadHit ==
    last.op = "evaluate" /\ last.found /\ last.cached = EmptyDict

UniqueKeys == \A i, j \in DOMAIN cache : cache[i].cache_key = cache[j].cache_key => i = j

ExpiredReplacedInPlace ==
    last'.op = "evaluate" =>
        \A i \in KeyRows(cache, last'.cache_key) :
            cache[i].expires_at <= now =>
                /\ ~last'.found
                /\ Len(cache') = Len(cache)
                /\ cache'[i].cache_key = last'.cache_key
                /\ cache'[i].data = last'.ret
                /\ cache'[i].expires_at > now

(* C2: the store never holds two rows with one cache_key; the lookup of an
   expired entry is a miss and the put that follows rewrites that row's data
   and expires_at in place. *)
C2_OneRowPerKey == [](UniqueKeys) /\ [][ExpiredReplacedInPlace]_vars

C2_Witness ==
    /\ last.op = "evaluate" /\ last.computed /\ ~last.found
    /\ \E i \in KeyRows(last.afterGet, last.cache_key) :
            last.afterGet[i].expires_at <= now /\ last.afterGet[i].hit_count > 0
    /\ Cardinality(KeyRows(cache, last.cache_key)) = 1

(* C3: the lookup returns the stored payload exactly when a row with the key
   exists whose expires_at is strictly later than the clock, and then adds
   exactly 1 to that row's hit_count; otherwise it returns nothing and leaves
   the store as it was, stale row included. *)
C3_GetHitOrUntouched ==
    [][(last'.op \in {"evaluate", "preview"}) =>
        LET live == {i \in DOMAIN cache : cache[i].cache_key = last'.cache_key
                                          /\ cache[i].expires_at > now}
        IN IF live # {}
           THEN \A i \in live :
                    /\ last'.found
                    /\ last'.cached = cache[i].data
                    /\ last'.afterGet = [cache EXCEPT ![i].hit_count = cache[i].hit_count + 1]
           ELSE /\ ~last'.found
                /\ last'.cached = PyNone
                /\ last'.afterGet = cache]_vars

C3_Witness ==
    /\ last.op = "evaluate" /\ last.found
    /\ \E i \in KeyRows(cache, last.cache_key) : cache[i].hit_count = 2

(* C4: a put at time t leaves the row with expires_at = t + 24 hours; a
   lookup before that instant finds the row, a lookup at or after it misses,
   recomputes and puts again. *)
C4_TtlWindow ==
    [][last'.op = "evaluate" =>
        /\ \A i \in KeyRows(cache, last'.cache_key) :
              IF now < cache[i].expires_at
              THEN last'.found
              ELSE /\ ~last'.found
                   /\ last'.computed
                   /\ cache'[i].expires_at = now + 24
        /\ last'.computed =>
              \E j \in KeyRows(cache', last'.cache_key) : cache'[j].expires_at = now + 24]_vars

C4_Witness ==
    /\ last.op = "evaluate" /\ last.computed
    /\ \E i \in KeyRows(last.afterGet, last.cache_key) : last.afterGet[i].expires_at = now
    /\ \E j \in KeyRows(cache, last.cache_key) : cache[j].expires_at = now + 24

(* C5: an evaluate call on an unsaved visualization recomputes its result and
   leaves the store exactly as it was. *)
C5_PreviewLeavesStore ==
    [][last'.op = "preview" => (cache' = cache /\ last'.computed /\ ~last'.found)]_vars

C5_Witness ==
    /\ last.op = "preview" /\ last.computed
    /\ cache # <<>>
    /\ \E i \in DOMAIN cache : cache[i].expires_at > now /\ cache[i].hit_count > 0


----------------------------------------------------------------------------
(* IndicatorComputationService *)

(* A local variable: the right-hand side is evaluated once, when it is
   assigned, and Body reads the value. *)
Local(value, Body(_)) == CHOOSE out \in {Body(x) : x \in {value}} : TRUE

(* Floats are extended rationals: d = 0 encodes inf (n = 1), -inf (n = -1), nan (n = 0). *)
NaN == [n |-> 0, d |-> 0]
Inf == [n |-> 1, d |-> 0]
Fin(k) == [n |-> k, d |-> 1]
IsFinite(x) == x.d # 0
IsNaN(x) == x.d = 0 /\ x.n = 0
Sign(k) == IF k < 0 THEN -1 ELSE IF k > 0 THEN 1 ELSE 0

FAdd(x, y) ==
    IF IsNaN(x) \/ IsNaN(y) THEN NaN
    ELSE IF ~IsFinite(x) THEN (IF ~IsFinite(y) /\ y.n # x.n THEN NaN ELSE x)
    ELSE IF ~IsFinite(y) THEN y
    ELSE Rat(x.n * y.d + y.n * x.d, x.d * y.d)

FNeg(x) == [n |-> -x.n, d |-> x.d]
FSub(x, y) == FAdd(x, FNeg(y))

FMul(x, y) ==
    IF IsNaN(x) \/ IsNaN(y) THEN NaN
    ELSE IF ~IsFinite(x) \/ ~IsFinite(y)
         THEN (IF x.n = 0 \/ y.n = 0 THEN NaN ELSE [n |-> Sign(x.n) * Sign(y.n), d |-> 0])
    ELSE Rat(x.n * y.n, x.d * y.d)

(* x / y for y other than zero; a zero divisor raises ZeroDivisionError *)
FDiv(x, y) ==
    IF IsNaN(x) \/ IsNaN(y) THEN NaN
    ELSE IF ~IsFinite(x) THEN (IF ~IsFinite(y) THEN NaN ELSE [n |-> x.n * Sign(y.n), d |-> 0])
    ELSE IF ~IsFinite(y) THEN Fin(0)
    ELSE Rat(x.n * y.d, x.d * y.n)

IsZero(x) == IsFinite(x) /\ x.n = 0
PyFloat(x) == [t |-> "float", v |-> x]

(* Formula text is a sequence of tokens; s is the token's source text. *)
TCall(fn, field) ==
    [k |-> "call", s |-> fn \o "(" \o field \o ")", fn |-> fn, field |-> field,
     arg |-> "", num |-> NaN]
TPct(fn, field, arg) ==
    [k |-> "pct", s |-> fn \o "(" \o field \o ", '" \o arg \o "')", fn |-> fn,
     field |-> field, arg |-> arg, num |-> NaN]
TNum(text, x) == [k |-> "num", s |-> text, fn |-> "", field |-> "", arg |-> "", num |-> x]
TOp(o) == [k |-> "op", s |-> o, fn |-> "", field |-> "", arg |-> "", num |-> NaN]
TName(id) == [k |-> "name", s |-> id, fn |-> "", field |-> "", arg |-> "", num |-> NaN]
TExit == [k |-> "exitcall", s |-> "exit()", fn |-> "", field |-> "", arg |-> "", num |-> NaN]

FormulaText(toks) == JoinStr([i \in DOMAIN toks |-> toks[i].s], " ")

(* re.IGNORECASE on the function name *)
UpperFn(fn) ==
    CASE fn \in {"COUNT", "count", "Count"} -> "COUNT"
      [] fn \in {"SUM", "sum"} -> "SUM"
      [] fn \in {"AVG", "avg"} -> "AVG"
      [] fn \in {"MIN", "min"} -> "MIN"
      [] fn \in {"MAX", "max"} -> "MAX"
      [] fn \in {"PERCENTAGE", "percentage"} -> "PERCENTAGE"
      [] OTHER -> fn

(* str.strip() on the captured field text *)
Strip(text) ==
    CASE text = " a " -> "a"
      [] text = " Student ID " -> "Student ID"
      [] OTHER -> text

(* A DataFrame: column names, the dtype pandas infers per column, and rows. *)
Column(df, col) == [i \in DOMAIN df.rows |-> df.rows[i][col]]

InferDtype(series) ==
    IF series # <<>> /\ \A i \in DOMAIN series : series[i].t = "int" THEN "int64"
    ELSE IF /\ \E i \in DOMAIN series : series[i].t = "int"
            /\ \A j \in DOMAIN series : series[j].t \in {"int", "none"} THEN "float64"
    ELSE "object"

(* pd.DataFrame(list of records) *)
DataFrame(columns, rows) ==
    [columns |-> columns,
     rows |-> rows,
     dtypes |-> [c \in Range(columns) |-> InferDtype([i \in DOMAIN rows |-> rows[i][c]])]]

(* column in df.columns *)
HasColumn(df, col) == col \in Range(df.columns)

(* the number a string parses as, for the strings of the model *)
ParseNumber(text) ==
    CASE text = "5" -> Fin(5)
      [] OTHER -> NaN

(* pd.to_numeric(series, errors='coerce') *)
ToNumeric(series) ==
    [i \in DOMAIN series |->
        IF series[i].t = "int" THEN Fin(series[i].v)
        ELSE IF series[i].t = "str" THEN ParseNumber(series[i].v)
        ELSE NaN]

IsNumber(x) == ~IsNaN(x)
(* skipna=True *)
KeepNa(series) == series
NotNa(series) == SelectSeq(series, IsNumber)

RECURSIVE FSum(_)
FSum(series) == IF series = <<>> THEN Fin(0) ELSE FAdd(Head(series), FSum(Tail(series)))

FLess(x, y) == x.n * y.d < y.n * x.d

IsNotNull(x) == x.t # "none"
SeriesCount(series) == Len(SelectSeq(series, IsNotNull))
SeriesSum(numeric) == FSum(NotNa(numeric))
SeriesMean(numeric) ==
    LET vals == NotNa(numeric)
    IN IF vals = <<>> THEN NaN ELSE FDiv(FSum(vals), Fin(Len(vals)))
SeriesMin(numeric) ==
    LET vals == NotNa(numeric)
    IN IF vals = <<>> THEN NaN
       ELSE CHOOSE x \in Range(vals) : \A y \in Range(vals) : ~FLess(y, x)
SeriesMax(numeric) ==
    LET vals == NotNa(numeric)
    IN IF vals = <<>> THEN NaN
       ELSE CHOOSE x \in Range(vals) : \A y \in Range(vals) : ~FLess(x, y)

(* series.astype(str), element by element *)
AsStr(val, dtype) ==
    CASE val.t = "int" -> IF dtype = "float64" THEN ToString(val.v) \o ".0" ELSE ToString(val.v)
      [] val.t = "str" -> val.v
      [] OTHER -> IF dtype = "float64" THEN "nan" ELSE "None"

(* str(number) spliced into the formula: the token it reads back as *)
StrOfNumber(x) ==
    IF IsFinite(x) THEN TNum("", x)
    ELSE IF IsNaN(x) THEN TName("nan")
    ELSE TName("inf")

(* formula_eval.replace(match.group(0), text) *)
ReplaceEvery(toks, old, new) ==
    [i \in DOMAIN toks |-> IF toks[i].k \in {"call", "pct"} THEN new ELSE toks[i]]
ReplaceAll(toks, old, new) == [i \in DOMAIN toks |-> IF toks[i].s = old.s THEN new ELSE toks[i]]

ColumnNotFoundBare(column, df) == "Column '" \o column \o "' not found in survey data."

ColumnNotFound(column, df) ==
    "Column '" \o column \o "' not found in survey data. Available columns: "
        \o JoinStr(df.columns, ", ")

AggregateOf(F, df, column) ==
    LET series == Column(df, column)
        numeric == ToNumeric(series)
    IN CASE F = "COUNT" -> Fin(SeriesCount(series))
         [] F = "SUM" -> SeriesSum(numeric)
         [] F = "AVG" -> SeriesMean(numeric)
         [] F = "MIN" -> SeriesMin(numeric)
         [] F = "MAX" -> SeriesMax(numeric)

PercentageOf(df, column, value) ==
    LET series == Column(df, column)
        Eq(x) == AsStr(x, df.dtypes[column]) = value
        count == Len(SelectSeq(series, Eq))
    IN IF Len(df.rows) > 0 THEN FMul(FDiv(Fin(count), Fin(Len(df.rows))), Fin(100)) ELSE Fin(0)

(* one `for match in re.finditer(pattern, formula_eval)` loop: the matches are
   those of the text as it was when the loop started *)
RECURSIVE SubstitutePass(_, _, _, _, _)
SubstitutePass(F, scanned, i, cur, df) ==
    IF i > Len(scanned) THEN [err |-> "", toks |-> cur]
    ELSE LET tok == scanned[i]
             isMatch == IF F = "PERCENTAGE"
                        THEN tok.k = "pct" /\ UpperFn(tok.fn) = F
                        ELSE tok.k = "call" /\ UpperFn(tok.fn) = F
             column == Strip(tok.field)
         IN IF ~isMatch THEN SubstitutePass(F, scanned, i + 1, cur, df)
            ELSE IF ~HasColumn(df, column)
                 THEN [err |-> ColumnNotFound(column, df), toks |-> cur]
            ELSE LET val == IF F = "PERCENTAGE" THEN PercentageOf(df, column, tok.arg)
                            ELSE AggregateOf(F, df, column)
                 IN Local(ReplaceAll(cur, tok, StrOfNumber(val)),
                          LAMBDA formula_eval : SubstitutePass(F, scanned, i + 1, formula_eval, df))

FunctionOrder == <<"COUNT", "SUM", "AVG", "MIN", "MAX", "PERCENTAGE">>

RECURSIVE SubstituteAll(_, _, _)
SubstituteAll(j, toks, df) ==
    IF j > Len(FunctionOrder) THEN [err |-> "", toks |-> toks]
    ELSE Local(SubstitutePass(FunctionOrder[j], toks, 1, toks, df),
               LAMBDA r : IF r.err # "" THEN r ELSE SubstituteAll(j + 1, r.toks, df))

(* eval(formula_eval): the text must read as  [sign] atom (op [sign] atom)*;
   operands are evaluated left to right, * and / before + and -.
   Result: exc names the exception raised ("" for none), val the value. *)
IsAtom(tok) == tok.k # "op"

RECURSIVE WellFormed(_, _, _)
WellFormed(toks, i, wantOperand) ==
    IF i > Len(toks) THEN ~wantOperand
    ELSE IF wantOperand
         THEN IF IsAtom(toks[i]) THEN WellFormed(toks, i + 1, FALSE)
              ELSE toks[i].s \in {"+", "-"} /\ WellFormed(toks, i + 1, TRUE)
    ELSE ~IsAtom(toks[i]) /\ WellFormed(toks, i + 1, TRUE)

Combine(total, addop, term) == IF addop = "-" THEN FSub(total, term) ELSE FAdd(total, term)

RECURSIVE EvalFrom(_, _, _, _, _, _, _, _)
EvalFrom(toks, i, total, addop, term, mulop, neg, wantOperand) ==
    IF i > Len(toks) THEN [exc |-> "", msg |-> "", val |-> Combine(total, addop, term)]
    ELSE LET tok == toks[i]
         IN IF wantOperand
            THEN IF tok.k = "op"
                 THEN EvalFrom(toks, i + 1, total, addop, term, mulop,
                               IF tok.s = "-" THEN ~neg ELSE neg, TRUE)
                 ELSE IF tok.k = "exitcall"
                 THEN [exc |-> "SystemExit", msg |-> "", val |-> NaN]
                 ELSE IF tok.k # "num"
                 THEN [exc |-> "NameError",
                       msg |-> "name '" \o (IF tok.k = "name" THEN tok.s ELSE tok.fn)
                                  \o "' is not defined",
                       val |-> NaN]
                 ELSE LET v == IF neg THEN FNeg(tok.num) ELSE tok.num
                      IN IF mulop = "/" /\ IsZero(v)
                         THEN [exc |-> "ZeroDivisionError", msg |-> "division by zero",
                               val |-> NaN]
                         ELSE EvalFrom(toks, i + 1, total, addop,
                                       IF mulop = "*" THEN FMul(term, v)
                                       ELSE IF mulop = "/" THEN FDiv(term, v)
                                       ELSE v,
                                       "", FALSE, FALSE)
            ELSE IF tok.s \in {"*", "/"}
                 THEN EvalFrom(toks, i + 1, total, addop, term, tok.s, FALSE, TRUE)
                 ELSE EvalFrom(toks, i + 1, Combine(total, addop, term), tok.s,
                               Fin(0), "", FALSE, TRUE)

PyEval(toks) ==
    IF ~WellFormed(toks, 1, TRUE)
    THEN [exc |-> "SyntaxError", msg |-> "invalid syntax (<string>, line 1)", val |-> NaN]
    ELSE EvalFrom(toks, 1, Fin(0), "+", Fin(0), "", FALSE, TRUE)

(* Result: exc is "" (val is the float returned), "ValueError" (msg its text)
   or the name of an exception that `except Exception` does not catch. *)
_evaluate_formula(formula, df) ==
    Local(SubstituteAll(1, formula, df), LAMBDA sub :
        IF sub.err # "" THEN [exc |-> "ValueError", msg |-> sub.err, val |-> NaN]
        ELSE Local(PyEval(sub.toks), LAMBDA ev :
            IF ev.exc = "" THEN ev
            ELSE IF ev.exc = "SystemExit" THEN ev
            ELSE [exc |-> "ValueError",
                  msg |-> "Could not evaluate formula: " \o FormulaText(formula)
                             \o ". Evaluation error: " \o ev.msg,
                  val |-> NaN]))

(* df_filtered[df_filtered[column] == value] for the criteria in turn.
   Result: err is the message of the exception raised, "" for none. *)
CellEq(cell, value) == cell.t # "none" /\ cell = value

RECURSIVE ApplyFilters(_, _, _)
ApplyFilters(df, items, i) ==
    IF i > Len(items) THEN [err |-> "", df |-> df]
    ELSE LET column == items[i][1]
             value == items[i][2]
         IN IF ~HasColumn(df, column) THEN ApplyFilters(df, items, i + 1)
            ELSE IF value.t = "list"
                 THEN IF Len(value.v) # Len(df.rows)
                      THEN [err |-> "('Lengths must match to compare', ...)", df |-> df]
                      ELSE LET keep == {j \in DOMAIN df.rows : CellEq(df.rows[j][column], value.v[j])}
                               Kept(k) == k \in keep
                               idx == SelectSeq([j \in DOMAIN df.rows |-> j], Kept)
                           IN ApplyFilters([df EXCEPT !.rows = [j \in DOMAIN idx |-> df.rows[idx[j]]]],
                                           items, i + 1)
            ELSE LET Keep(row) == CellEq(row[column], value)
                 IN ApplyFilters([df EXCEPT !.rows = SelectSeq(df.rows, Keep)], items, i + 1)

Absent == -1

(* Result: raised is the exception that leaves the call ("" for none), result the dict
   returned; keys the dict lacks are Absent / "". *)
compute_indicator(service, indicator_name, formula, filter_criteria) ==
    LET criteria == IF Truthy(filter_criteria) THEN filter_criteria ELSE EmptyDict
        Error(msg) == [indicator_name |-> indicator_name, formula |-> FormulaText(formula),
                       filter_criteria |-> criteria, value |-> PyNone,
                       rows_processed |-> Absent, total_rows |-> Absent,
                       status |-> "error", error |-> msg]
    IN Local(IF Truthy(filter_criteria)
             THEN ApplyFilters(service.df, filter_criteria.v, 1)
             ELSE [err |-> "", df |-> service.df], LAMBDA filtered :
        IF filtered.err # "" THEN [raised |-> "", result |-> Error(filtered.err)]
        ELSE Local(_evaluate_formula(formula, filtered.df), LAMBDA ev :
            IF ev.exc = "ValueError" THEN [raised |-> "", result |-> Error(ev.msg)]
            ELSE IF ev.exc # "" THEN [raised |-> ev.exc, result |-> <<>>]
            ELSE [raised |-> "",
                  result |-> [indicator_name |-> indicator_name,
                              formula |-> FormulaText(formula),
                              filter_criteria |-> criteria,
                              value |-> IF IsFinite(ev.val) THEN PyFloat(ev.val) ELSE PyNone,
                              rows_processed |-> Len(filtered.df.rows),
                              total_rows |-> service.total_rows,
                              status |-> "success", error |-> ""]]))

(* self after compute_indicator: df_filtered is a copy, and filtering rebinds
   the local name; self.df and self.total_rows are assigned in __init__ only *)
SelfFilteredInPlace(service, filter_criteria) ==
    IF Truthy(filter_criteria)
    THEN [service EXCEPT !.df = ApplyFilters(service.df, filter_criteria.v, 1).df]
    ELSE service
SelfAfter(service, filter_criteria) == service

RECURSIVE SelfAfterAll(_, _, _)
SelfAfterAll(service, indicators, i) ==
    IF i > Len(indicators) THEN service
    ELSE SelfAfterAll(SelfAfter(service, indicators[i].filter_criteria), indicators, i + 1)

RECURSIVE ComputeLoop(_, _, _, _)
ComputeLoop(service, indicators, i, results) ==
    IF i > Len(indicators) THEN [raised |-> "", results |-> results]
    ELSE Local(compute_indicator(service, indicators[i].name, indicators[i].formula,
                                 indicators[i].filter_criteria), LAMBDA r :
            IF r.raised # "" THEN [raised |-> r.raised, results |-> <<>>]
            ELSE Local(Append(results, r.result), LAMBDA appended :
                    ComputeLoop(service, indicators, i + 1, appended)))

compute_multiple_indicators(service, indicators) == ComputeLoop(service, indicators, 1, <<>>)

(* IndicatorComputationService(dataframe) *)
ServiceNoTotal(df) == [df |-> df, total_rows |-> 0]
Service(df) == [df |-> df, total_rows |-> Len(df.rows)]

----------------------------------------------------------------------------
(* Inputs of the service *)
MaxDfRows == 2
MaxCalls == 2

CellChoicesA == {PyInt(10), PyInt(20), PyStr("abc"), PyNone}
CellChoicesB == {PyInt(1), PyNone}
RowChoices == {("a" :> x) @@ ("b" :> y) : x \in CellChoicesA, y \in CellChoicesB}

RECURSIVE RowSeqs(_)
RowSeqs(n) ==
    IF n = 0 THEN {<<>>}
    ELSE LET shorter == RowSeqs(n - 1)
         IN shorter \cup {Append(rs, r) : rs \in {x \in shorter : Len(x) = n - 1}, r \in RowChoices}

(* a survey of four records *)
SurveyColumns == <<"field", "answered", "cases", "region", "Student ID", "Course-Name.1">>
SurveyRecord(field, answered, cases, region, student, course) ==
    [c \in Range(SurveyColumns) |->
        CASE c = "field" -> field
          [] c = "answered" -> answered
          [] c = "cases" -> cases
          [] c = "region" -> region
          [] c = "Student ID" -> student
          [] c = "Course-Name.1" -> course]
SurveyFrame ==
    DataFrame(SurveyColumns,
        << SurveyRecord(PyInt(10), PyInt(1), PyInt(100), PyStr("North"), PyInt(1), PyStr("abc")),
           SurveyRecord(PyInt(20), PyNone, PyInt(150), PyStr("South"), PyInt(2), PyNone),
           SurveyRecord(PyNone, PyInt(2), PyInt(120), PyStr("East"), PyInt(3), PyStr("abc")),
           SurveyRecord(PyStr("abc"), PyNone, PyInt(130), PyStr("West"), PyInt(4), PyStr("5")) >>)

DataFrameChoices ==
    {DataFrame(<<>>, <<>>), SurveyFrame}
        \cup {DataFrame(<<"a", "b">>, rs) : rs \in RowSeqs(MaxDfRows) \ {<<>>}}

FormulaChoices ==
    { <<TCall("COUNT", "a")>>,
      <<TCall("sum", " a ")>>,
      <<TCall("AVG", "a")>>,
      <<TCall("MAX", "a")>>,
      <<TCall("COUNT", "zz")>>,
      <<TPct("PERCENTAGE", "a", "10")>>,
      <<TCall("SUM", "a"), TOp("/"), TCall("COUNT", "b")>>,
      <<TCall("COUNT", "a"), TOp("/"), TCall("COUNT", "b")>>,
      <<TCall("COUNT", " Student ID "), TOp("/"), TCall("count", "Course-Name.1")>>,
      <<TCall("count", "A")>>,
      <<TCall("SUM", "field")>>,
      <<TCall("SUM", "Course-Name.1")>>,
      <<TCall("COUNT", "answered")>>,
      <<TCall("SUM", "cases")>>,
      <<TPct("PERCENTAGE", "region", "North")>>,
      <<TPct("percentage", "b", "1")>>,
      <<TNum("1e999", Inf)>>,
      <<TName("total")>>,
      <<TExit>> }

CriteriaChoices ==
    { PyNone,
      PyDict(<< <<"b", PyInt(1)>> >>),
      PyDict(<< <<"b", PyNone>> >>),
      PyDict(<< <<"a", PyInt(10)>>, <<"zz", PyInt(1)>>, <<"b", PyInt(1)>> >>),
      PyDict(<< <<"b", PyInt(1)>>, <<"a", PyInt(10)>> >>),
      PyDict(<< <<"zz", PyInt(1)>>, <<"a", PyInt(10)>> >>),
      PyDict(<< <<"a", PyList(<<PyInt(10), PyInt(10)>>)>> >>) }

FilteredFormulaChoices ==
    { <<TCall("COUNT", "a")>>,
      <<TCall("AVG", "a")>>,
      <<TCall("SUM", "a"), TOp("/"), TCall("COUNT", "b")>> }

IndicatorChoices ==
    [name : {"ind"}, formula : FormulaChoices,
     filter_criteria : {PyNone, PyDict(<< <<"b", PyInt(1)>> >>)}]
        \cup [name : {"ind"}, formula : FilteredFormulaChoices,
              filter_criteria : CriteriaChoices]

SiblingChoices ==
    {[name |-> "sibling", formula |-> f, filter_criteria |-> PyNone] :
        f \in {<<TCall("COUNT", "a")>>, <<TExit>>}}

BatchChoices ==
    {<<x>> : x \in IndicatorChoices}
        \cup {<<x, y>> : x \in SiblingChoices, y \in SiblingChoices}
        \cup {<<x, y>> : x \in SiblingChoices,
                         y \in {z \in IndicatorChoices : z.filter_criteria = PyNone}}

IndInit ==
    /\ svc \in {Service(df) : df \in DataFrameChoices}
    /\ batch \in BatchChoices
    /\ res = <<>>

(* calls made on the service so far *)
Calls == IF res = <<>> THEN 0 ELSE res.n

(* service.compute_indicator(...) on the first definition *)
ComputeIndicator ==
    /\ Calls < MaxCalls
    /\ res' = [op |-> "one", n |-> Calls + 1,
               out |-> compute_indicator(svc, batch[1].name, batch[1].formula,
                                         batch[1].filter_criteria)]
    /\ svc' = SelfAfter(svc, batch[1].filter_criteria)
    /\ UNCHANGED <<batch, engineVars, keyVars, aggVars, crudVars>>

(* service.compute_multiple_indicators(batch) *)
ComputeMultiple ==
    /\ Calls < MaxCalls
    /\ res' = [op |-> "batch", n |-> Calls + 1,
               out |-> compute_multiple_indicators(svc, batch)]
    /\ svc' = SelfAfterAll(svc, batch, 1)
    /\ UNCHANGED <<batch, engineVars, keyVars, aggVars, crudVars>>

(* service._evaluate_formula(formula, service.df) on the first definition's formula *)
EvaluateFormula ==
    /\ Calls < MaxCalls
    /\ res' = [op |-> "formula", n |-> Calls + 1,
               out |-> _evaluate_formula(batch[1].formula, svc.df)]
    /\ svc' = svc
    /\ UNCHANGED <<batch, engineVars, keyVars, aggVars, crudVars>>

SpecIndInit == IndInit /\ EngineIdle /\ KeyIdle /\ AggIdle /\ CrudIdle
SpecIndNext == ComputeIndicator \/ ComputeMultiple \/ EvaluateFormula
SpecInd == SpecIndInit /\ [][SpecIndNext]_vars

----------------------------------------------------------------------------
(* Properties of the indicator computation service *)

(* C8: compute_indicator raises nothing, whatever the name, formula, filter
   criteria and dataset: it returns a record, and a record with status
   "error" has value null and a non-empty error message. *)
C8_NeverRaises ==
    (res # <<>> /\ res.op = "one") =>
        /\ res.out.raised = ""
        /\ res.out.result.status \in {"success", "error"}
        /\ res.out.result.status = "error" =>
              (res.out.result.value = PyNone /\ res.out.result.error # "")

Alone(i) ==
    compute_indicator(svc, batch[i].name, batch[i].formula, batch[i].filter_criteria)

(* C9: compute_multiple_indicators returns one result per indicator, in input
   order, the i-th being what compute_indicator returns for the i-th indicator
   alone; an indicator whose formula fails leaves the others' results as they are. *)
C9_BatchIsPointwise ==
    (res # <<>> /\ res.op = "batch") =>
        /\ res.out.raised = ""
        /\ Len(res.out.results) = Len(batch)
        /\ \A i \in DOMAIN batch : res.out.results[i] = Alone(i).result

(* the filtered dataset of the first indicator, when filtering succeeds *)
FilteredOk ==
    ~Truthy(batch[1].filter_criteria) \/ ApplyFilters(svc.df, batch[1].filter_criteria.v, 1).err = ""
FilteredDf ==
    IF Truthy(batch[1].filter_criteria)
    THEN ApplyFilters(svc.df, batch[1].filter_criteria.v, 1).df
    ELSE svc.df

NoNumericValue(col) ==
    \A i \in DOMAIN FilteredDf.rows : IsNaN(ToNumeric(<<FilteredDf.rows[i][col]>>)[1])

(* AVG, MIN or MAX of an existing column that holds no number *)
EmptyAggregateCase ==
    /\ FilteredOk
    /\ Len(batch[1].formula) = 1
    /\ batch[1].formula[1].k = "call"
    /\ UpperFn(batch[1].formula[1].fn) \in {"AVG", "MIN", "MAX"}
    /\ HasColumn(FilteredDf, Strip(batch[1].formula[1].field))
    /\ NoNumericValue(Strip(batch[1].formula[1].field))

(* SUM(x) / COUNT(y) over existing columns where y has no value *)
ZeroDivisorCase ==
    /\ FilteredOk
    /\ Len(batch[1].formula) = 3
    /\ batch[1].formula[1].k = "call" /\ HasColumn(FilteredDf, Strip(batch[1].formula[1].field))
    /\ batch[1].formula[2].s = "/"
    /\ batch[1].formula[3].k = "call" /\ UpperFn(batch[1].formula[3].fn) = "COUNT"
    /\ HasColumn(FilteredDf, Strip(batch[1].formula[3].field))
    /\ \A i \in DOMAIN FilteredDf.rows :
            FilteredDf.rows[i][Strip(batch[1].formula[3].field)].t = "none"

(* C10: when the formula's value is not a finite number, by a division by
   zero or by AVG/MIN/MAX over a column without numbers, compute_indicator
   returns status "success" with value null. *)
C10_NonFiniteIsNullSuccess ==
    (res # <<>> /\ res.op = "one" /\ (EmptyAggregateCase \/ ZeroDivisorCase)) =>
        /\ res.out.raised = ""
        /\ res.out.result.status = "success"
        /\ res.out.result.value = PyNone

----------------------------------------------------------------------------
(* Properties of formula evaluation *)

FormulaCalled == res # <<>> /\ res.op = "formula"
TheFormula == batch[1].formula

(* the text handed to eval: the formula after the six substitution passes *)
Residual == SubstituteAll(1, TheFormula, svc.df)

(* C11: a residual expression that holds anything other than numeric literals
   and the operators + - * / is rejected with a formula error (ValueError)
   and is not evaluated. *)
C11_ResidualIsArithmeticOnly ==
    (/\ FormulaCalled
     /\ Residual.err = ""
     /\ \E i \in DOMAIN Residual.toks : Residual.toks[i].k \notin {"num", "op"})
        => res.out.exc = "ValueError"

(* number of records whose value of col is not missing *)
CountOf(col) == Cardinality({i \in DOMAIN svc.df.rows : svc.df.rows[i][col].t # "none"})

IsCountCall(tok) == tok.k = "call" /\ UpperFn(tok.fn) = "COUNT"

(* COUNT(A) / COUNT(B) over two columns of the dataset *)
IsCountRatio ==
    /\ Len(TheFormula) = 3
    /\ IsCountCall(TheFormula[1]) /\ HasColumn(svc.df, Strip(TheFormula[1].field))
    /\ TheFormula[2].s = "/"
    /\ IsCountCall(TheFormula[3]) /\ HasColumn(svc.df, Strip(TheFormula[3].field))

(* C12: COUNT(A) / COUNT(B) evaluates to count(A) divided by count(B), each
   call replaced by the count of its own field, for field names with spaces,
   hyphens and dots too (where count(B) is not 0, so that the quotient exists). *)
C12_CallsResolveIndependently ==
    (FormulaCalled /\ IsCountRatio /\ CountOf(Strip(TheFormula[3].field)) # 0) =>
        /\ res.out.exc = ""
        /\ res.out.val = Rat(CountOf(Strip(TheFormula[1].field)),
                             CountOf(Strip(TheFormula[3].field)))

C12_Witness ==
    /\ FormulaCalled /\ IsCountRatio
    /\ svc.df = SurveyFrame
    /\ Strip(TheFormula[1].field) = "Student ID"
    /\ Strip(TheFormula[3].field) = "Course-Name.1"
    /\ res.out.val = [n |-> 4, d |-> 3]

(* the fields named by the formula's function calls that are no column *)
MissingFields ==
    {Strip(TheFormula[i].field) :
        i \in {j \in DOMAIN TheFormula :
                  /\ TheFormula[j].k \in {"call", "pct"}
                  /\ UpperFn(TheFormula[j].fn) \in Range(FunctionOrder)}}
        \ Range(svc.df.columns)

(* C13: a call on a field that is not among the columns (exact,
   case-sensitive comparison; the function name in any case) fails with a
   formula error that names the column and lists the available columns, and
   no value is produced. *)
C13_MissingColumnIsFormulaError ==
    (FormulaCalled /\ MissingFields # {}) =>
        /\ res.out.exc = "ValueError"
        /\ res.out.val = NaN
        /\ \E c \in MissingFields :
              res.out.msg = "Column '" \o c \o "' not found in survey data. Available columns: "
                                \o JoinStr(svc.df.columns, ", ")

C13_Witness ==
    /\ FormulaCalled
    /\ TheFormula = <<TCall("count", "A")>>
    /\ svc.df.columns = <<"a", "b">>
    /\ res.out.exc = "ValueError"
    /\ res.out.msg = "Column 'A' not found in survey data. Available columns: a, b"

(* what a value contributes to a sum: the number it is or parses as, else 0 *)
NumericOrZero(cell) ==
    IF cell.t = "int" THEN cell.v
    ELSE IF cell.t = "str" /\ IsFinite(ParseNumber(cell.v)) THEN ParseNumber(cell.v).n
    ELSE 0

IsSingleCall(F) ==
    /\ Len(TheFormula) = 1
    /\ TheFormula[1].k = "call" /\ UpperFn(TheFormula[1].fn) = F
    /\ HasColumn(svc.df, Strip(TheFormula[1].field))

(* C14: SUM(field) is the sum of the numeric and numeric-coercible values of
   field, null and non-numeric values counting 0; COUNT(field) is the number
   of records whose value of field is not missing. *)
C14_SumAndCount ==
    /\ (FormulaCalled /\ IsSingleCall("SUM")) =>
          /\ res.out.exc = ""
          /\ res.out.val = Fin(SumSeq([i \in DOMAIN svc.df.rows |->
                                NumericOrZero(svc.df.rows[i][Strip(TheFormula[1].field)])]))
    /\ (FormulaCalled /\ IsSingleCall("COUNT")) =>
          /\ res.out.exc = ""
          /\ res.out.val = Fin(CountOf(Strip(TheFormula[1].field)))

C14_Witness ==
    /\ FormulaCalled /\ IsSingleCall("SUM")
    /\ svc.df = SurveyFrame
    /\ TheFormula[1].field = "field"
    /\ res.out.val = Fin(30)

(* field == value for the value text of a PERCENTAGE call *)
EqualsText(cell, text) ==
    \/ cell.t = "int" /\ ToString(cell.v) = text
    \/ cell.t = "str" /\ cell.v = text

IsPercentage ==
    /\ Len(TheFormula) = 1
    /\ TheFormula[1].k = "pct" /\ UpperFn(TheFormula[1].fn) = "PERCENTAGE"

(* C15: PERCENTAGE(field, value) is 100 * (records whose field equals value)
   / (records) on a dataset with records, and 0, with no error, on a dataset
   without records. *)
C15_PercentageOfMatches ==
    (FormulaCalled /\ IsPercentage) =>
        IF svc.df.rows = <<>>
        THEN res.out.exc = "" /\ res.out.val = Fin(0)
        ELSE HasColumn(svc.df, Strip(TheFormula[1].field)) =>
                /\ res.out.exc = ""
                /\ res.out.val =
                      Rat(100 * Cardinality({i \in DOMAIN svc.df.rows :
                                EqualsText(svc.df.rows[i][Strip(TheFormula[1].field)],
                                           TheFormula[1].arg)}),
                          Len(svc.df.rows))

----------------------------------------------------------------------------
(* Properties of compute_indicator's filtering and bookkeeping *)

IndicatorCalled == res # <<>> /\ res.op = "one"
Succeeded == IndicatorCalled /\ res.out.raised = "" /\ res.out.result.status = "success"

(* C16: a success result has rows_processed = the number of records left by
   the filter and total_rows = the number of records of the unfiltered
   dataset, hence rows_processed <= total_rows; SUM(cases) over cases
   [100, 150, 120, 130] without filter gives value 500 and rows_processed 4. *)
C16_SuccessRowCounts ==
    /\ Succeeded =>
          /\ res.out.result.rows_processed = Len(FilteredDf.rows)
          /\ res.out.result.total_rows = Len(svc.df.rows)
          /\ res.out.result.rows_processed <= res.out.result.total_rows
    /\ (/\ IndicatorCalled
        /\ svc.df = SurveyFrame
        /\ TheFormula = <<TCall("SUM", "cases")>>
        /\ batch[1].filter_criteria = PyNone) =>
          /\ Succeeded
          /\ res.out.result.value = PyFloat(Fin(500))
          /\ res.out.result.rows_processed = 4

C16_Witness ==
    /\ Succeeded
    /\ svc.df = SurveyFrame
    /\ TheFormula = <<TCall("SUM", "cases")>>
    /\ batch[1].filter_criteria = PyNone
    /\ res.out.result.value = PyFloat(Fin(500))
    /\ res.out.result.rows_processed = 4
    /\ res.out.result.total_rows = 4

(* value-at-field == value for every criterion whose field is a column *)
SatisfiesAll(record) ==
    \A i \in DOMAIN batch[1].filter_criteria.v :
        LET column == batch[1].filter_criteria.v[i][1]
            value == batch[1].filter_criteria.v[i][2]
        IN HasColumn(svc.df, column) => record[column] = value

(* C17: filtering raises no error and keeps, in their order, exactly the
   records whose value equals the criterion's value for every criterion on an
   existing column; criteria on other fields have no effect. *)
C17_FilterKeepsMatching ==
    (IndicatorCalled /\ Truthy(batch[1].filter_criteria)) =>
        LET filtered == ApplyFilters(svc.df, batch[1].filter_criteria.v, 1)
        IN /\ filtered.err = ""
           /\ filtered.df.rows = SelectSeq(svc.df.rows, SatisfiesAll)

(* C18: a call leaves the service's dataset and row count as they were, and
   a call repeated with the same formula, criteria and dataset returns what
   the call before it returned. *)
C18_CallsArePure ==
    [][/\ svc' = svc
       /\ (res # <<>> /\ res'.op = res.op) => res'.out = res.out]_vars

C18_Witness ==
    /\ Succeeded
    /\ res.n = 2
    /\ Truthy(batch[1].filter_criteria)
    /\ res.out.result.rows_processed < res.out.result.total_rows
    /\ Len(svc.df.rows) = res.out.result.total_rows

----------------------------------------------------------------------------
(* Aggregation and single-value formatting on their own inputs *)
MaxRecords == 3
MaxCells == 2

(* rows as _fetch_data returns them *)
RecordChoices ==
    {[indicator_id |-> ind, indicator_project |-> 1, survey |-> 1, survey_project |-> 1,
      survey__name |-> "1", value |-> v, period |-> "Current", calculated_at |-> 0] :
        ind \in {1, 2}, v \in {10, 20, -10}}
    \cup
    {[indicator_id |-> 1, indicator_project |-> 1, survey |-> 1, survey_project |-> 1,
      survey__name |-> "a_b", value |-> 10, period |-> "c", calculated_at |-> 0],
     [indicator_id |-> 1, indicator_project |-> 1, survey |-> 2, survey_project |-> 1,
      survey__name |-> "a", value |-> 20, period |-> "b_c", calculated_at |-> 0]}

RECURSIVE SeqsUpTo(_, _)
SeqsUpTo(S, n) ==
    IF n = 0 THEN {<<>>}
    ELSE LET shorter == SeqsUpTo(S, n - 1)
         IN shorter \cup {Append(q, x) : q \in {y \in shorter : Len(y) = n - 1}, x \in S}

(* layouts: dimensions that are fields of the rows, and "region", which is not *)
AggLayoutChoices ==
    { EmptyDict,
      PyDict(<< <<"rows", PyList(<<PyStr("period")>>)>> >>),
      PyDict(<< <<"rows", PyList(<<PyStr("region")>>)>> >>),
      PyDict(<< <<"rows", PyList(<<PyStr("indicator_id")>>)>>,
                <<"columns", PyList(<<PyStr("period")>>)>> >>),
      PyDict(<< <<"rows", PyList(<<PyStr("survey__name")>>)>>,
                <<"columns", PyList(<<PyStr("period")>>)>> >>),
      PyDict(<< <<"rows", PyList(<<PyStr("indicator_id"), PyStr("region")>>)>>,
                <<"columns", PyList(<<PyStr("survey__name")>>)>> >>) }

(* aggregated cells as _aggregate_data builds them, and cells without values *)
CellChoices ==
    {[row |-> "", column |-> "", values |-> <<>>, sum |-> sm, avg |-> Rat(0, 1), count |-> n] :
        sm \in {0, 10, 20, -10}, n \in {0, 2, 3}}

CellKeys == <<"1_Current", "2_Current", "Current_1", "Current_2">>

OptionChoices ==
    { EmptyDict,
      PyDict(<< <<"label", PyStr("Cases")>>, <<"target_value", PyInt(100)>> >>) }

AggInputs ==
    [kind : {"records"}, data : SeqsUpTo(RecordChoices, MaxRecords), layout : AggLayoutChoices]

FormatInputs ==
    {[kind |-> "cells",
      cells |-> PyDict([i \in DOMAIN cs |-> <<CellKeys[i], cs[i]>>]),
      options |-> o] : cs \in SeqsUpTo(CellChoices, MaxCells), o \in OptionChoices}

AggInit ==
    /\ aIn \in AggInputs \cup FormatInputs
    /\ aOut = <<>>

(* engine._aggregate_data(data, layout) *)
AggregateData ==
    /\ aIn.kind = "records"
    /\ aOut' = [op |-> "aggregate", out |-> _aggregate_data(aIn.data, aIn.layout)]
    /\ UNCHANGED <<aIn, engineVars, keyVars, indVars, crudVars>>

(* engine._format_for_single_value(data, options) *)
FormatSingleValue ==
    /\ aIn.kind = "cells"
    /\ aOut' = [op |-> "single_value",
                out |-> _format_for_single_value(aIn.cells, aIn.options)]
    /\ UNCHANGED <<aIn, engineVars, keyVars, indVars, crudVars>>

(* engine._format_for_single_value on the cells _aggregate_data returned *)
FormatAggregated ==
    /\ aIn.kind = "records"
    /\ aOut # <<>> /\ aOut.op = "aggregate"
    /\ aOut' = [op |-> "single_value_of_aggregate", cells |-> aOut.out,
                out |-> _format_for_single_value(aOut.out, EmptyDict)]
    /\ UNCHANGED <<aIn, engineVars, keyVars, indVars, crudVars>>

SpecAggInit == AggInit /\ EngineIdle /\ KeyIdle /\ IndIdle /\ CrudIdle
SpecAggNext == AggregateData \/ FormatSingleValue \/ FormatAggregated
SpecAgg == SpecAggInit /\ [][SpecAggNext]_vars

----------------------------------------------------------------------------
(* Properties of aggregation and single-value formatting *)

Aggregated == aOut # <<>> /\ aOut.op = "aggregate"
LayoutRows == DictGet(aIn.layout, "rows", PyList(<<>>)).v
LayoutColumns == DictGet(aIn.layout, "columns", PyList(<<>>)).v

(* the key component of a record for one dimension: the field's text, or the
   empty string when the record has no such field *)
Component(item, dim) ==
    IF dim \in DOMAIN item THEN ItemGetStr(item, dim) ELSE ""

CellKeyOf(item) ==
    JoinStr([i \in DOMAIN LayoutRows |-> Component(item, LayoutRows[i].v)], "_")
        \o "_" \o
    JoinStr([i \in DOMAIN LayoutColumns |-> Component(item, LayoutColumns[i].v)], "_")

RecordsOf(key) == {j \in DOMAIN aIn.data : CellKeyOf(aIn.data[j]) = key}

RECURSIVE SumOver(_, _)
SumOver(S, data) ==
    IF S = {} THEN 0
    ELSE LET j == CHOOSE x \in S : TRUE IN data[j].value + SumOver(S \ {j}, data)

(* C19: _aggregate_data maps every record to a cell (a dimension the record
   lacks gives an empty key component), no record is dropped, each cell's
   count, sum and avg are those of the records mapped to it, and the counts
   add up to the number of records. *)
C19_AggregationIsTotal ==
    Aggregated =>
        LET cells == aOut.out.v
        IN /\ \A j \in DOMAIN aIn.data : \E i \in DOMAIN cells : cells[i][1] = CellKeyOf(aIn.data[j])
           /\ \A i, k \in DOMAIN cells : cells[i][1] = cells[k][1] => i = k
           /\ \A i \in DOMAIN cells :
                 /\ cells[i][2].count = Cardinality(RecordsOf(cells[i][1]))
                 /\ cells[i][2].count > 0
                 /\ cells[i][2].sum = SumOver(RecordsOf(cells[i][1]), aIn.data)
                 /\ cells[i][2].avg = Rat(cells[i][2].sum, cells[i][2].count)
           /\ SumSeq([i \in DOMAIN cells |-> cells[i][2].count]) = Len(aIn.data)

C19_Witness ==
    /\ Aggregated
    /\ Len(aIn.data) = 3
    /\ LayoutRows = <<PyStr("indicator_id"), PyStr("region")>>
    /\ Len(aOut.out.v) = 2
    /\ \E i \in DOMAIN aOut.out.v :
          /\ aOut.out.v[i][1] = "1__1"
          /\ aOut.out.v[i][2].count = 2
          /\ aOut.out.v[i][2].sum = 30
          /\ aOut.out.v[i][2].avg = Fin(15)

Formatted == aOut # <<>> /\ aOut.op \in {"single_value", "single_value_of_aggregate"}
FormattedCells == IF aOut.op = "single_value" THEN aIn.cells.v ELSE aOut.cells.v
SingleValue == DictGet(aOut.out, "data", <<>>)
TotalSum == SumSeq([i \in DOMAIN FormattedCells |-> FormattedCells[i][2].sum])
TotalCount == SumSeq([i \in DOMAIN FormattedCells |-> FormattedCells[i][2].count])

(* C20: the single_value format gives value = the sum of the cells' sums and
   average = that total / the sum of the cells' counts, or 0 when the total
   count is 0, for every cell mapping, the empty one included. *)
C20_SingleValueTotals ==
    Formatted =>
        /\ SingleValue.value = TotalSum
        /\ SingleValue.average = IF TotalCount = 0 THEN Fin(0) ELSE Rat(TotalSum, TotalCount)

C20_Witness ==
    /\ aOut # <<>> /\ aOut.op = "single_value"
    /\ Len(aIn.cells.v) = 2
    /\ aIn.cells.v[1][2].sum = 10 /\ aIn.cells.v[1][2].count = 2
    /\ aIn.cells.v[2][2].sum = 20 /\ aIn.cells.v[2][2].count = 3
    /\ SingleValue.value = 30
    /\ SingleValue.average = Fin(6)

----------------------------------------------------------------------------
(* Evaluation of one saved visualization by the engines of two projects:
   the visualization's own views and a dashboard that contains it *)

(* Visualization.VISUALIZATION_TYPES *)
AllVizTypes ==
    {"pivot_table", "column_chart", "bar_chart", "line_chart", "area_chart",
     "pie_chart", "gauge", "single_value", "scatter", "radar"}

ProjectIds == {1, 2}

(* dimensions without a data list, with an empty one, and with two indicators *)
DashDimensionChoices == {EmptyDict, DataOf(<<>>), DataOf(<<PyInt(1), PyInt(2)>>)}

(* indicator 1 and survey 1 belong to project 1, indicator 2 and survey 3 to project 2 *)
ValueOfProject1 ==
    [indicator_id |-> 1, indicator_project |-> 1, survey |-> 1, survey_project |-> 1,
     survey__name |-> "1", value |-> 10, period |-> "Current", calculated_at |-> 0]
ValueOfProject2 ==
    [indicator_id |-> 2, indicator_project |-> 2, survey |-> 3, survey_project |-> 2,
     survey__name |-> "3", value |-> 20, period |-> "Current", calculated_at |-> 0]
StoredValueChoices ==
    {<<>>, <<ValueOfProject1>>, <<ValueOfProject2>>, <<ValueOfProject2, ValueOfProject1>>}

SavedVizChoices ==
    {[id |-> PyInt(1), updated_at |-> PyInt(0), is_active |-> TRUE,
      project_id |-> 1, visualization_type |-> ty,
      dimensions |-> dims, filters |-> EmptyDict,
      layout |-> PyDict(<< <<"rows", PyList(<<PyStr("period")>>)>> >>),
      display_options |-> EmptyDict] : ty \in AllVizTypes, dims \in DashDimensionChoices}

DashInit ==
    /\ now = 0
    /\ vizTable \in {<<viz>> : viz \in SavedVizChoices}
    /\ ivTable \in StoredValueChoices
    /\ cache = <<>>
    /\ last = NoCall

(* GET /visualizations/{id}/evaluate/ : the engine of the visualization's project *)
EvaluateOwn(id) ==
    /\ id \in DOMAIN vizTable
    /\ LET viz == vizTable[id]
           r == evaluate_visualization(viz.project_id, viz, cache, ivTable, now, now)
       IN /\ HitsWithin(r.cache)
          /\ cache' = r.cache
          /\ last' = [op |-> "evaluate", engine |-> viz.project_id, raised |-> r.raised,
                      found |-> r.found, ret |-> r.ret]
    /\ UNCHANGED <<now, vizTable, ivTable, keyVars, indVars, aggVars, crudVars>>

(* GET /dashboards/{id}/data/ for a dashboard of `project` whose one item is
   visualization `id`: the engine of the dashboard's project *)
DashboardData(project, id) ==
    /\ id \in DOMAIN vizTable
    /\ LET viz == vizTable[id]
           r == evaluate_visualization(project, viz, cache, ivTable, now, now)
       IN /\ HitsWithin(r.cache)
          /\ cache' = r.cache
          /\ last' = [op |-> "dashboard", engine |-> project, raised |-> r.raised,
                      found |-> r.found, ret |-> r.ret]
    /\ UNCHANGED <<now, vizTable, ivTable, keyVars, indVars, aggVars, crudVars>>

SpecDashInit == DashInit /\ KeyIdle /\ IndIdle /\ AggIdle /\ CrudIdle
SpecDashNext ==
    \/ Tick
    \/ \E id \in VizIds : EvaluateOwn(id)
    \/ \E project \in ProjectIds, id \in VizIds : DashboardData(project, id)
SpecDash == SpecDashInit /\ [][SpecDashNext]_vars

----------------------------------------------------------------------------
(* Properties of evaluation without indicators *)

Evaluated == last.op \in {"evaluate", "dashboard"}
TheViz == vizTable[1]
ZeroIndicators == ~Truthy(DictGet(TheViz.dimensions, "data", PyList(<<>>)))
PayloadData == DictGet(last.ret, "data", PyNone)

(* the result of each type's formatter for no cells at all *)
EmptyOfType(ty, ret) ==
    IF ty \in ChartTypes \cup {"pie_chart"}
    THEN /\ DictKeys(ret) = {"type", "data", "options"}
         /\ DictGet(ret, "type", PyNone) = PyStr(ty)
         /\ DictGet(ret, "data", PyNone) = PyList(<<>>)
    ELSE IF ty = "pivot_table"
    THEN /\ DictKeys(ret) = {"rows", "columns", "data", "options"}
         /\ DictGet(ret, "rows", PyNone) = PyList(<<>>)
         /\ DictGet(ret, "columns", PyNone) = PyList(<<>>)
         /\ DictGet(ret, "data", PyNone) = EmptyDict
    ELSE IF ty = "single_value"
    THEN /\ DictKeys(ret) = {"type", "data", "options"}
         /\ DictGet(ret, "type", PyNone) = PyStr(ty)
         /\ DictGet(ret, "data", PyNone).value = 0
         /\ DictGet(ret, "data", PyNone).average = Rat(0, 1)
    ELSE ret = EmptyDict

(* C21 as stated: evaluating a visualization without indicators raises
   nothing and, for every visualization type, returns a result that carries
   a data collection, and that collection is empty. *)
C21_EmptyDataCollection ==
    (Evaluated /\ ZeroIndicators) =>
        /\ last.raised = ""
        /\ DictHas(last.ret, "data")
        /\ PayloadData \in {PyList(<<>>), EmptyDict}

(* C21 amended: evaluating a visualization without indicators raises nothing
   and returns what the type's formatter gives for no cells: an empty data
   list for the chart and pie types, empty rows, columns and data for
   pivot_table, value 0 and average 0 for single_value, and the bare empty
   mapping for the types without a formatter. *)
C21_EmptyResultOfType ==
    (Evaluated /\ ZeroIndicators) =>
        /\ last.raised = ""
        /\ EmptyOfType(TheViz.visualization_type, last.ret)

C21_Witness ==
    /\ last.op = "evaluate" /\ ZeroIndicators
    /\ ~DictHas(TheViz.dimensions, "data")
    /\ TheViz.visualization_type = "pivot_table"
    /\ Len(ivTable) = 2
    /\ DictGet(last.ret, "rows", PyNone) = PyList(<<>>)

----------------------------------------------------------------------------
(* Project isolation *)

(* what fetch, aggregate and format give the engine of `project` from the
   stored values *)
FreshFor(project, table) ==
    _format_for_visualization(
        _aggregate_data(_fetch_data(project, TheViz.dimensions, TheViz.filters, table),
                        TheViz.layout),
        TheViz.visualization_type, TheViz.display_options)

(* C28: the result an engine built for project P returns is the one computed
   from the indicator values of project P; a payload stored by the engine of
   another project is never returned to it. *)
C28_ProjectIsolation ==
    Evaluated => last.ret = FreshFor(last.engine, ivTable)

(* The failing case of C28: the engine of project 1 is handed a stored
   payload that differs from what project 1's values give. *)
C28_ForeignPayload ==
    /\ last.op = "evaluate" /\ last.engine = 1 /\ last.found
    /\ last.ret # FreshFor(1, ivTable)

----------------------------------------------------------------------------
(* Cache freshness *)

(* what fetch, aggregate and format give for a saved visualization from the
   values stored now *)
FreshResult(viz, table) ==
    _format_for_visualization(
        _aggregate_data(_fetch_data(viz.project_id, viz.dimensions, viz.filters, table),
                        viz.layout),
        viz.visualization_type, viz.display_options)

(* C29: every result evaluate returns for a saved visualization equals the
   result computed from the indicator values stored at the moment of the
   call; a hit never returns a payload that a fresh computation would not
   give. *)
C29_ResultIsFresh ==
    last.op = "evaluate" => last.ret = FreshResult(vizTable[1], ivTable)

(* The failing case of C29: a hit on a payload stored before a value was added. *)
C29_StaleHit ==
    /\ last.op = "evaluate" /\ last.found /\ ~last.computed
    /\ Len(ivTable) = 1
    /\ last.ret # FreshResult(vizTable[1], ivTable)

----------------------------------------------------------------------------
(* Cell identity *)

RowKeyOf(item) ==
    JoinStr([i \in DOMAIN LayoutRows |-> Component(item, LayoutRows[i].v)], "_")
ColumnKeyOf(item) ==
    JoinStr([i \in DOMAIN LayoutColumns |-> Component(item, LayoutColumns[i].v)], "_")
KeyPairs == {<<RowKeyOf(aIn.data[j]), ColumnKeyOf(aIn.data[j])>> : j \in DOMAIN aIn.data}

(* C27: two records are accumulated into one cell only if they have the same
   row_key and the same column_key, whatever the dimension values ('_' and
   the empty string included): there is one cell per (row_key, column_key)
   pair, and a cell's row and column are the keys of every record in it. *)
C27_CellsKeyedByPair ==
    Aggregated =>
        LET cells == aOut.out.v
        IN /\ Len(cells) = Cardinality(KeyPairs)
           /\ \A i \in DOMAIN cells : \A j \in RecordsOf(cells[i][1]) :
                 /\ cells[i][2].row = RowKeyOf(aIn.data[j])
                 /\ cells[i][2].column = ColumnKeyOf(aIn.data[j])

(* The failing case of C27: records with different key pairs in one cell. *)
C27_MergedCell ==
    /\ Aggregated
    /\ Cardinality(KeyPairs) = 2
    /\ Len(aOut.out.v) = 1
    /\ aOut.out.v[1][2].count = 2

----------------------------------------------------------------------------
(* Surveys: upload, sheet processing, update, archive and restore *)
MaxSheetRows == 2

(* ids the Survey table hands out *)
SurveyIdRange == {1}

UserIds == {1, 2}

(* str.endswith(suffix) *)
EndsWith(s, suffix) ==
    /\ Len(s) >= Len(suffix)
    /\ SubSeq(s, Len(s) - Len(suffix) + 1, Len(s)) = suffix
EndsWithAny(s, suffixes) == \E suffix \in suffixes : EndsWith(s, suffix)

NoFile == [name |-> ""]

(* uploaded files: the name, whether pandas can parse the content, and the
   data rows of each sheet (a CSV file has one unnamed sheet) *)
Sheet(n, k) == [name |-> n, rows |-> k]
FileChoices ==
    { [name |-> "data.csv", parses |-> TRUE, sheets |-> <<Sheet("", MaxSheetRows)>>],
      [name |-> "head.csv", parses |-> TRUE, sheets |-> <<Sheet("", 0)>>],
      [name |-> "junk.csv", parses |-> FALSE, sheets |-> <<>>],
      [name |-> "one.xlsx", parses |-> TRUE, sheets |-> <<Sheet("S1", 1)>>],
      [name |-> "blank.xlsx", parses |-> TRUE, sheets |-> <<Sheet("S1", 0)>>],
      [name |-> "two.xlsx", parses |-> TRUE,
       sheets |-> <<Sheet("S1", MaxSheetRows), Sheet("S2", 0)>>],
      [name |-> "notes.txt", parses |-> TRUE, sheets |-> <<Sheet("", 1)>>] }

SheetNameChoices == {<<>>, <<"S1">>, <<"S2">>, <<"Nope">>, <<"S1", "S2">>}
NameChoices == {PyNone, PyStr("renamed")}

(* a Survey row removed by survey.delete(); its id is not used again *)
Gone == [deleted |-> TRUE]
Exists(row) == "deleted" \notin DOMAIN row
IsActive(tbl, id) == id \in DOMAIN tbl /\ Exists(tbl[id]) /\ ~tbl[id].is_archived
IsArchived(tbl, id) == id \in DOMAIN tbl /\ Exists(tbl[id]) /\ tbl[id].is_archived
RowOf(tbl, id) == IF id \in DOMAIN tbl THEN tbl[id] ELSE Gone

(* Survey.objects.create(name, description, uploaded_by, file) *)
NewSurvey(name, user, file) ==
    [name |-> name, uploaded_by |-> user, file |-> file, total_records |-> 0,
     is_archived |-> FALSE, archived_date |-> PyNone, archived_by |-> PyNone]

(* SurveyData.objects.create(survey, data, sheet_name) once for each row *)
RECURSIVE DataRows(_, _, _)
DataRows(id, sheet_name, k) ==
    IF k = 0 THEN <<>>
    ELSE <<[survey |-> id, sheet_name |-> sheet_name]>> \o DataRows(id, sheet_name, k - 1)

(* SurveyData.objects.filter(survey=survey).delete(), and the cascade of survey.delete() *)
WithoutDataOf(data, id) == SelectSeq(data, LAMBDA r : r.survey # id)

(* SurveyUploadView.post *)
upload(tbl, data, user, file, name) ==
    LET id == Len(tbl) + 1
        created == NewSurvey(IF name = PyNone THEN PyStr(file.name) ELSE name, user, file)
        Failed == [surveys |-> Append(tbl, Gone), data |-> data, status |-> 400, created |-> id]
        Imported(k, code) ==
            [surveys |-> Append(tbl, [created EXCEPT !.total_records = k]),
             data |-> data \o DataRows(id, PyNone, k), status |-> code, created |-> id]
    IN IF file = NoFile
       THEN [surveys |-> tbl, data |-> data, status |-> 400, created |-> 0]
       ELSE IF ~EndsWithAny(file.name, {".csv", ".xlsx", ".xls"})
       THEN [surveys |-> tbl, data |-> data, status |-> 400, created |-> 0]
       ELSE IF ~file.parses THEN Failed
       ELSE IF EndsWith(file.name, ".csv")
       THEN IF file.sheets[1].rows = 0 THEN Failed
            ELSE Imported(file.sheets[1].rows, 201)
       ELSE IF Len(file.sheets) > 1 THEN Imported(0, 200)
       ELSE IF file.sheets[1].rows = 0 THEN Failed
       ELSE Imported(file.sheets[1].rows, 201)

(* the loop of SurveyProcessSheetView.post over sheet_names: the rows created
   and their number; an unknown sheet name (ValueError) and an empty sheet
   are skipped *)
RECURSIVE ImportSheets(_, _, _)
ImportSheets(id, file, sheet_names) ==
    IF sheet_names = <<>> THEN [rows |-> <<>>, total |-> 0]
    ELSE LET sheet_name == Head(sheet_names)
             found == {i \in DOMAIN file.sheets : file.sheets[i].name = sheet_name}
             k == IF found = {} THEN 0 ELSE file.sheets[CHOOSE i \in found : TRUE].rows
             rest == ImportSheets(id, file, Tail(sheet_names))
         IN [rows |-> DataRows(id, PyStr(sheet_name), k) \o rest.rows,
             total |-> k + rest.total]

(* SurveyProcessSheetView.post *)
process_sheets(tbl, data, id, sheet_names) ==
    IF ~IsActive(tbl, id) THEN [surveys |-> tbl, data |-> data, status |-> 404]
    ELSE IF ~EndsWithAny(tbl[id].file.name, {".xlsx", ".xls"})
    THEN [surveys |-> tbl, data |-> data, status |-> 400]
    ELSE IF sheet_names = <<>> THEN [surveys |-> tbl, data |-> data, status |-> 400]
    ELSE LET imported == ImportSheets(id, tbl[id].file, sheet_names)
             stored == WithoutDataOf(data, id) \o imported.rows
         IN IF imported.total = 0
            THEN [surveys |-> tbl, data |-> stored, status |-> 400]
            ELSE [surveys |-> [tbl EXCEPT ![id].total_records = imported.total],
                  data |-> stored, status |-> 200]

(* SurveyDetailView.put; SurveyDetailView.patch has the same body.
   read_excel(file_obj) reads the first sheet and raises on a file that is
   not an Excel workbook. *)
update_survey(tbl, data, id, name, file) ==
    IF ~IsActive(tbl, id) THEN [surveys |-> tbl, data |-> data, status |-> 404]
    ELSE LET named == IF name = PyNone THEN tbl[id] ELSE [tbl[id] EXCEPT !.name = name]
         IN IF file = NoFile
            THEN [surveys |-> [tbl EXCEPT ![id] = named], data |-> data, status |-> 200]
            ELSE IF ~EndsWithAny(file.name, {".csv", ".xlsx", ".xls"})
            THEN [surveys |-> tbl, data |-> data, status |-> 400]
            ELSE IF ~file.parses \/ EndsWith(file.name, ".csv")
            THEN [surveys |-> tbl, data |-> WithoutDataOf(data, id), status |-> 400]
            ELSE [surveys |-> [tbl EXCEPT ![id] =
                                  [named EXCEPT !.file = file,
                                                !.total_records = file.sheets[1].rows]],
                  data |-> WithoutDataOf(data, id)
                           \o DataRows(id, PyNone, file.sheets[1].rows),
                  status |-> 200]

(* the archive of SurveyDetailView.delete without the date *)
ArchiveWithoutDate(row, user, t) ==
    [row EXCEPT !.is_archived = TRUE, !.archived_by = PyInt(user)]

(* the assignments of SurveyDetailView.delete *)
Archive(row, user, t) ==
    [row EXCEPT !.is_archived = TRUE, !.archived_date = PyInt(t), !.archived_by = PyInt(user)]

(* SurveyDetailView.delete *)
archive_survey(tbl, id, user, t) ==
    IF ~IsActive(tbl, id) THEN [surveys |-> tbl, status |-> 404]
    ELSE [surveys |-> [tbl EXCEPT ![id] = Archive(tbl[id], user, t)], status |-> 204]

(* SurveyRestoreView.post *)
restore_survey(tbl, id) ==
    IF ~IsArchived(tbl, id) THEN [surveys |-> tbl, status |-> 404]
    ELSE [surveys |-> [tbl EXCEPT ![id] =
                          [tbl[id] EXCEPT !.is_archived = FALSE, !.archived_date = PyNone,
                                          !.archived_by = PyNone]],
          status |-> 200]

ArchiveTimes == {1, 2}
notSurveyVars == <<engineVars, keyVars, indVars, aggVars, userVars, computeVars, raceVars>>

SurveyInit ==
    /\ surveys = <<>>
    /\ surveyData = <<>>
    /\ sReply = [op |-> "none"]

SurveyUpload(user, file, name) ==
    /\ Len(surveys) + 1 \in SurveyIdRange
    /\ LET r == upload(surveys, surveyData, user, file, name)
       IN /\ surveys' = r.surveys
          /\ surveyData' = r.data
          /\ sReply' = [op |-> "upload", id |-> r.created, user |-> user,
                        status |-> r.status, before |-> Gone]
    /\ UNCHANGED notSurveyVars

SurveyProcessSheet(id, sheet_names) ==
    /\ LET r == process_sheets(surveys, surveyData, id, sheet_names)
       IN /\ surveys' = r.surveys
          /\ surveyData' = r.data
          /\ sReply' = [op |-> "process_sheet", id |-> id, user |-> 0,
                        status |-> r.status, before |-> RowOf(surveys, id)]
    /\ UNCHANGED notSurveyVars

SurveyGet(id) ==
    /\ sReply' = [op |-> "get", id |-> id, user |-> 0,
                  status |-> IF IsActive(surveys, id) THEN 200 ELSE 404,
                  before |-> RowOf(surveys, id)]
    /\ UNCHANGED <<surveys, surveyData, notSurveyVars>>

SurveyPut(id, name, file) ==
    /\ LET r == update_survey(surveys, surveyData, id, name, file)
       IN /\ surveys' = r.surveys
          /\ surveyData' = r.data
          /\ sReply' = [op |-> "put", id |-> id, user |-> 0,
                        status |-> r.status, before |-> RowOf(surveys, id)]
    /\ UNCHANGED notSurveyVars

SurveyPatch(id, name, file) ==
    /\ LET r == update_survey(surveys, surveyData, id, name, file)
       IN /\ surveys' = r.surveys
          /\ surveyData' = r.data
          /\ sReply' = [op |-> "patch", id |-> id, user |-> 0,
                        status |-> r.status, before |-> RowOf(surveys, id)]
    /\ UNCHANGED notSurveyVars

SurveyDelete(id, user, t) ==
    /\ LET r == archive_survey(surveys, id, user, t)
       IN /\ surveys' = r.surveys
          /\ sReply' = [op |-> "delete", id |-> id, user |-> user,
                        status |-> r.status, before |-> RowOf(surveys, id)]
    /\ UNCHANGED <<surveyData, notSurveyVars>>

SurveyRestore(id) ==
    /\ LET r == restore_survey(surveys, id)
       IN /\ surveys' = r.surveys
          /\ sReply' = [op |-> "restore", id |-> id, user |-> 0,
                        status |-> r.status, before |-> RowOf(surveys, id)]
    /\ UNCHANGED <<surveyData, notSurveyVars>>

SpecSurveyInit ==
    SurveyInit /\ EngineIdle /\ KeyIdle /\ IndIdle /\ AggIdle
               /\ UserIdle /\ ComputeIdle /\ RaceIdle
SpecSurveyNext ==
    \/ \E user \in UserIds, file \in FileChoices \cup {NoFile}, name \in NameChoices :
            SurveyUpload(user, file, name)
    \/ \E id \in SurveyIdRange, sheet_names \in SheetNameChoices :
            SurveyProcessSheet(id, sheet_names)
    \/ \E id \in SurveyIdRange : SurveyGet(id)
    \/ \E id \in SurveyIdRange, name \in NameChoices, file \in FileChoices \cup {NoFile} :
            SurveyPut(id, name, file)
    \/ \E id \in SurveyIdRange, name \in NameChoices, file \in FileChoices \cup {NoFile} :
            SurveyPatch(id, name, file)
    \/ \E id \in SurveyIdRange, user \in UserIds, t \in ArchiveTimes : SurveyDelete(id, user, t)
    \/ \E id \in SurveyIdRange : SurveyRestore(id)
SpecSurvey == SpecSurveyInit /\ [][SpecSurveyNext]_vars

----------------------------------------------------------------------------
(* Properties of the survey requests *)

Stored(id) == Cardinality({i \in DOMAIN surveyData : surveyData[i].survey = id})
LifecycleOps == {"get", "put", "patch", "delete", "restore"}
Before == sReply.before
After == RowOf(surveys, sReply.id)

(* C22: no lifecycle request removes a survey row; is_archived holds exactly
   when archived_date is set; DELETE on an active survey archives it with
   the date and the requester; restore on an archived survey clears the
   three fields; GET, PUT, PATCH and DELETE on an archived survey and
   restore on an active one answer 404 and leave the row as it was. *)
C22_SoftDeleteLifecycle ==
    /\ \A id \in DOMAIN surveys :
          Exists(surveys[id]) =>
              (surveys[id].is_archived <=> surveys[id].archived_date # PyNone)
    /\ (sReply.op \in LifecycleOps /\ Exists(Before)) =>
          /\ Exists(After)
          /\ (sReply.op = "delete" /\ ~Before.is_archived) =>
                /\ sReply.status = 204
                /\ After.is_archived
                /\ After.archived_date # PyNone
                /\ After.archived_by = PyInt(sReply.user)
          /\ (sReply.op = "restore" /\ Before.is_archived) =>
                /\ sReply.status = 200
                /\ ~After.is_archived
                /\ After.archived_date = PyNone
                /\ After.archived_by = PyNone
          /\ (sReply.op # "restore" /\ Before.is_archived) =>
                sReply.status = 404 /\ After = Before
          /\ (sReply.op = "restore" /\ ~Before.is_archived) =>
                sReply.status = 404 /\ After = Before

C22_Witness ==
    /\ sReply.op = "restore" /\ sReply.status = 200
    /\ Exists(Before) /\ Before.is_archived /\ Before.archived_by = PyInt(2)
    /\ ~After.is_archived /\ After.archived_by = PyNone
    /\ After.total_records = MaxSheetRows

(* C30: after every upload, process-sheet and update-with-file request,
   successful or not, each survey's total_records is the number of its
   SurveyData rows, and an upload that failed leaves no Survey row. *)
C30_RecordCountMatches ==
    /\ \A id \in DOMAIN surveys :
          Exists(surveys[id]) => surveys[id].total_records = Stored(id)
    /\ (sReply.op = "upload" /\ sReply.status = 400 /\ sReply.id \in DOMAIN surveys) =>
          ~Exists(surveys[sReply.id])

(* The failing case of C30: a request answered with an error after the
   survey's rows were deleted, total_records still at the old count. *)
C30_CountLeftBehind ==
    /\ sReply.op \in {"process_sheet", "put", "patch"} /\ sReply.status = 400
    /\ Exists(After)
    /\ After.total_records > 0 /\ Stored(sReply.id) = 0

----------------------------------------------------------------------------
(* Users: create, update, profile update, deactivate and reactivate *)
MaxUsers == 2

UsernameChoices == {PyStr("ann"), PyStr("bob")}
EmailChoices == {PyStr("ann@example.com"), PyStr("bob@example.com")}
(* a request field: absent (PyNone), empty, or one of the values *)
Field(values) == {PyNone, PyStr("")} \cup values
FirstNameChoices == {PyNone, PyStr("Ann")}

(* CustomUser.objects.filter(username=...).exclude(id=...).exists(), restricted
   to active users *)
UsernameTakenByActive(tbl, username, except) ==
    \E j \in DOMAIN tbl : j # except /\ tbl[j].is_active /\ tbl[j].username = username

(* CustomUser.objects.filter(username=...).exclude(id=...).exists(); id 0 excludes nobody *)
UsernameTaken(tbl, username, except) ==
    \E j \in DOMAIN tbl : j # except /\ tbl[j].username = username

(* CustomUser.objects.filter(email=...).exclude(id=...).exists() *)
EmailTaken(tbl, email, except) ==
    \E j \in DOMAIN tbl : j # except /\ tbl[j].email = email

(* CustomUser.objects.create_user(username, email, password, ...) *)
create_user(tbl, username, email) ==
    Append(tbl, [username |-> username, email |-> email, first_name |-> PyStr(""),
                 is_active |-> TRUE])

Answer(tbl, status, error) == [users |-> tbl, status |-> status, error |-> error]

(* UserListView.post *)
create(tbl, username, email, password) ==
    IF ~Truthy(username) \/ ~Truthy(email) \/ ~Truthy(password)
    THEN Answer(tbl, 400, "username, email, and password are required")
    ELSE IF UsernameTaken(tbl, username, 0) THEN Answer(tbl, 400, "Username already exists")
    ELSE IF EmailTaken(tbl, email, 0) THEN Answer(tbl, 400, "Email already exists")
    ELSE Answer(create_user(tbl, username, email), 201, "")

IsActiveUser(tbl, id) == id \in DOMAIN tbl /\ tbl[id].is_active

(* UserDetailView.put; UserDetailView.patch has the same body *)
update_user(tbl, id, body) ==
    IF ~IsActiveUser(tbl, id) THEN Answer(tbl, 404, "User not found")
    ELSE IF body.username # PyNone /\ UsernameTaken(tbl, body.username, id)
    THEN Answer(tbl, 400, "Username already exists")
    ELSE IF body.email # PyNone /\ EmailTaken(tbl, body.email, id)
    THEN Answer(tbl, 400, "Email already exists")
    ELSE Answer([tbl EXCEPT ![id] =
                    [@ EXCEPT !.username = IF body.username # PyNone THEN body.username ELSE @,
                              !.email = IF body.email # PyNone THEN body.email ELSE @]],
                200, "")

(* UserProfileView.put for the authenticated user *)
update_profile(tbl, id, body) ==
    IF body.email # PyNone /\ EmailTaken(tbl, body.email, id)
    THEN Answer(tbl, 400, "Email already exists")
    ELSE Answer([tbl EXCEPT ![id] =
                    [@ EXCEPT !.email = IF body.email # PyNone THEN body.email ELSE @,
                              !.first_name = IF body.first_name # PyNone
                                             THEN body.first_name ELSE @]],
                200, "")

UpdateBodies == [username : Field(UsernameChoices), email : Field(EmailChoices)]
ProfileBodies == [email : Field(EmailChoices), first_name : FirstNameChoices]
UserIdRange == 1..MaxUsers

notUserVars == <<engineVars, keyVars, indVars, aggVars, surveyVars, computeVars, raceVars>>

UserInit ==
    /\ users = <<>>
    /\ uReply = [op |-> "none"]

UserCreate(username, email, password) ==
    /\ Len(users) < MaxUsers
    /\ LET r == create(users, username, email, password)
       IN /\ users' = r.users
          /\ uReply' = [op |-> "create", id |-> 0, status |-> r.status, error |-> r.error,
                        body |-> [username |-> username, email |-> email,
                                  password |-> password]]
    /\ UNCHANGED notUserVars

UserPut(id, body) ==
    /\ LET r == update_user(users, id, body)
       IN /\ users' = r.users
          /\ uReply' = [op |-> "put", id |-> id, status |-> r.status, error |-> r.error,
                        body |-> body]
    /\ UNCHANGED notUserVars

UserPatch(id, body) ==
    /\ LET r == update_user(users, id, body)
       IN /\ users' = r.users
          /\ uReply' = [op |-> "patch", id |-> id, status |-> r.status, error |-> r.error,
                        body |-> body]
    /\ UNCHANGED notUserVars

(* the authenticated user is an active one *)
ProfilePut(id, body) ==
    /\ IsActiveUser(users, id)
    /\ LET r == update_profile(users, id, body)
       IN /\ users' = r.users
          /\ uReply' = [op |-> "profile", id |-> id, status |-> r.status, error |-> r.error,
                        body |-> body]
    /\ UNCHANGED notUserVars

(* UserDetailView.delete *)
UserDeactivate(id) ==
    /\ IsActiveUser(users, id)
    /\ users' = [users EXCEPT ![id].is_active = FALSE]
    /\ uReply' = [op |-> "deactivate", id |-> id, status |-> 204, error |-> "", body |-> <<>>]
    /\ UNCHANGED notUserVars

(* UserReactivateView.post *)
UserReactivate(id) ==
    /\ id \in DOMAIN users /\ ~users[id].is_active
    /\ users' = [users EXCEPT ![id].is_active = TRUE]
    /\ uReply' = [op |-> "reactivate", id |-> id, status |-> 200, error |-> "", body |-> <<>>]
    /\ UNCHANGED notUserVars

SpecUserInit ==
    UserInit /\ EngineIdle /\ KeyIdle /\ IndIdle /\ AggIdle
             /\ SurveyIdle /\ ComputeIdle /\ RaceIdle
SpecUserNext ==
    \/ \E username \in Field(UsernameChoices), email \in Field(EmailChoices),
          password \in {PyNone, PyStr("secret")} : UserCreate(username, email, password)
    \/ \E id \in UserIdRange, body \in UpdateBodies : UserPut(id, body)
    \/ \E id \in UserIdRange, body \in UpdateBodies : UserPatch(id, body)
    \/ \E id \in UserIdRange, body \in ProfileBodies : ProfilePut(id, body)
    \/ \E id \in UserIdRange : UserDeactivate(id)
    \/ \E id \in UserIdRange : UserReactivate(id)
SpecUser == SpecUserInit /\ [][SpecUserNext]_vars

----------------------------------------------------------------------------
(* Properties of the user requests *)

UsersUnique ==
    \A i, j \in DOMAIN users :
        i # j => users[i].username # users[j].username /\ users[i].email # users[j].email

(* the request would give a user the username or the email of another user *)
WouldDuplicate(tbl, r) ==
    LET SameUsername(except) ==
            \E j \in DOMAIN tbl : j # except /\ tbl[j].username = r.body.username
        SameEmail(except) ==
            \E j \in DOMAIN tbl : j # except /\ tbl[j].email = r.body.email
    IN CASE r.op = "create" ->
                /\ Truthy(r.body.username) /\ Truthy(r.body.email) /\ Truthy(r.body.password)
                /\ SameUsername(0) \/ SameEmail(0)
         [] r.op \in {"put", "patch"} ->
                /\ IsActiveUser(tbl, r.id)
                /\ \/ r.body.username # PyNone /\ SameUsername(r.id)
                   \/ r.body.email # PyNone /\ SameEmail(r.id)
         [] r.op = "profile" -> r.body.email # PyNone /\ SameEmail(r.id)
         [] OTHER -> FALSE

DuplicateRejected ==
    WouldDuplicate(users, uReply') =>
        /\ uReply'.status = 400
        /\ uReply'.error \in {"Username already exists", "Email already exists"}
        /\ users' = users

(* C23: after any sequence of create, PUT, PATCH and profile-update requests
   no two users share a username and no two share an email, and a request
   that would introduce a duplicate is answered 400 '... already exists'
   and creates or changes no user. *)
C23_UsersStayUnique == [](UsersUnique) /\ [][DuplicateRejected]_vars

C23_Witness ==
    /\ Len(users) = 2
    /\ ~users[1].is_active
    /\ uReply.op = "profile" /\ uReply.id = 2 /\ uReply.status = 400
    /\ uReply.error = "Email already exists"
    /\ uReply.body.email = users[1].email
    /\ uReply.body.first_name = PyStr("Ann")
    /\ users[2].first_name = PyStr("")

----------------------------------------------------------------------------
(* POST /indicators/compute/{survey_id}/ *)

(* Indicator rows; Meta.ordering is newest first *)
IndicatorTable ==
    <<[id |-> 1, name |-> "answered", formula |-> <<TCall("COUNT", "answered")>>,
       filter_criteria |-> EmptyDict, is_active |-> TRUE],
      [id |-> 2, name |-> "cases", formula |-> <<TCall("SUM", "cases")>>,
       filter_criteria |-> EmptyDict, is_active |-> TRUE],
      [id |-> 3, name |-> "missing", formula |-> <<TCall("COUNT", "zz")>>,
       filter_criteria |-> EmptyDict, is_active |-> TRUE],
      [id |-> 4, name |-> "retired", formula |-> <<TCall("COUNT", "answered")>>,
       filter_criteria |-> EmptyDict, is_active |-> FALSE]>>

(* surveys 1 and 3 hold the records of SurveyFrame, survey 2 holds none,
   survey 9 does not exist *)
ComputeSurveyIds == {1, 2, 3, 9}
SurveysWithData == {1, 3}
ExistingSurveys == {1, 2, 3}

IndicatorIdLists == {<<>>, <<1>>, <<2>>, <<1, 2>>, <<3>>, <<3, 1>>, <<4>>}

(* Indicator.objects.filter(id__in=indicator_ids, is_active=True), newest first *)
RECURSIVE ActiveIndicators(_, _)
ActiveIndicators(indicator_ids, k) ==
    IF k = 0 THEN <<>>
    ELSE (IF IndicatorTable[k].is_active /\ k \in Range(indicator_ids)
          THEN <<IndicatorTable[k]>> ELSE <<>>)
         \o ActiveIndicators(indicator_ids, k - 1)

HasValue(tbl, indicator, survey, period) ==
    \E i \in DOMAIN tbl :
        tbl[i].indicator = indicator /\ tbl[i].survey = survey /\ tbl[i].period = period

(* the loop of IndicatorComputationView.post: compute, then
   IndicatorValue.objects.create for a success; unique_together
   (indicator, survey, period) makes create raise IntegrityError *)
RECURSIVE ComputeAndSave(_, _, _, _, _)
ComputeAndSave(service, indicators, survey, tbl, results) ==
    IF indicators = <<>> THEN [raised |-> "", values |-> tbl, results |-> results]
    ELSE LET indicator == Head(indicators)
         IN Local(compute_indicator(service, indicator.name, indicator.formula,
                                    indicator.filter_criteria), LAMBDA c :
            IF c.raised # "" THEN [raised |-> c.raised, values |-> tbl, results |-> results]
            ELSE IF c.result.status = "success" /\ HasValue(tbl, indicator.id, survey, "Current")
            THEN [raised |-> "IntegrityError", values |-> tbl, results |-> results]
            ELSE IF c.result.status = "success" /\ c.result.value = PyNone
            THEN [raised |-> "IntegrityError", values |-> tbl, results |-> results]
            ELSE ComputeAndSave(service, Tail(indicators), survey,
                    IF c.result.status = "success"
                    THEN <<[indicator |-> indicator.id, survey |-> survey,
                            value |-> c.result.value, period |-> "Current"]>> \o tbl
                    ELSE tbl,
                    Append(results, [indicator |-> indicator.id,
                                     status |-> c.result.status])))

(* IndicatorComputationView.post *)
compute(tbl, survey_id, indicator_ids) ==
    LET Reply(code, values, results) ==
            [status |-> code, values |-> values, results |-> results]
    IN IF survey_id \notin ExistingSurveys THEN Reply(404, tbl, <<>>)
       ELSE IF survey_id \notin SurveysWithData THEN Reply(404, tbl, <<>>)
       ELSE IF indicator_ids = <<>> THEN Reply(400, tbl, <<>>)
       ELSE IF ActiveIndicators(indicator_ids, Len(IndicatorTable)) = <<>>
       THEN Reply(404, tbl, <<>>)
       ELSE Local(ComputeAndSave(Service(SurveyFrame),
                                 ActiveIndicators(indicator_ids, Len(IndicatorTable)),
                                 survey_id, tbl, <<>>), LAMBDA done :
            IF done.raised # "" THEN Reply(400, done.values, done.results)
            ELSE Reply(200, done.values, done.results))

notComputeVars == <<engineVars, keyVars, indVars, aggVars, surveyVars, userVars, raceVars>>

ComputeInit ==
    /\ cValues = <<>>
    /\ cReply = [op |-> "none"]

Compute(survey_id, indicator_ids) ==
    /\ LET r == compute(cValues, survey_id, indicator_ids)
       IN /\ cValues' = r.values
          /\ cReply' = [op |-> "compute", survey |-> survey_id, ids |-> indicator_ids,
                        status |-> r.status, results |-> r.results]
    /\ UNCHANGED notComputeVars

SpecComputeInit ==
    ComputeInit /\ EngineIdle /\ KeyIdle /\ IndIdle /\ AggIdle
                /\ SurveyIdle /\ UserIdle /\ RaceIdle
SpecComputeNext ==
    \E survey_id \in ComputeSurveyIds, indicator_ids \in IndicatorIdLists :
        Compute(survey_id, indicator_ids)
SpecCompute == SpecComputeInit /\ [][SpecComputeNext]_vars

----------------------------------------------------------------------------
(* Properties of the compute endpoint *)

RequestsActive ==
    \E k \in Range(cReply.ids) : k \in DOMAIN IndicatorTable /\ IndicatorTable[k].is_active

(* C24: a compute request for active indicators on a survey with data is
   answered 200, and every indicator it computed with status "success" has
   an IndicatorValue for that survey afterwards; this holds for every
   request of a sequence, also when the indicator was computed before. *)
C24_ComputeStoresValues ==
    (cReply.op = "compute" /\ cReply.survey \in SurveysWithData /\ RequestsActive) =>
        /\ cReply.status = 200
        /\ \A i \in DOMAIN cReply.results :
              cReply.results[i].status = "success" =>
                  HasValue(cValues, cReply.results[i].indicator, cReply.survey, "Current")

(* The failing case of C24: the second request for an indicator already
   computed for the survey. *)
C24_RecomputeRejected ==
    /\ cReply.op = "compute" /\ cReply.survey = 1 /\ cReply.ids = <<1>>
    /\ cReply.status = 400
    /\ HasValue(cValues, 1, 1, "Current")

----------------------------------------------------------------------------
(* Concurrent evaluate_visualization calls on one saved visualization: each
   database statement is a step of its own *)
MaxEvals == 2

ProcIds == {1, 2}

(* the INSERT of get_or_create without the unique index on cache_key *)
InsertUnchecked(c, key, defaults) ==
    Append(c, [cache_key |-> key, project_id |-> defaults.project_id,
               visualization |-> defaults.visualization, data |-> defaults.data,
               expires_at |-> defaults.expires_at, hit_count |-> 0])

(* the INSERT of get_or_create after its lookup found no row: cache_key is
   unique, so when a row was inserted meanwhile the INSERT raises
   IntegrityError, the row is fetched instead and the defaults are saved
   to it *)
InsertOrFetch(c, key, defaults) == update_or_create(c, key, defaults)

NoRow == [cache_key |-> "", project_id |-> 0, visualization |-> 0, data |-> PyNone,
          expires_at |-> 0, hit_count |-> 0]
IdleProc ==
    [pc |-> "idle", evals |-> 0, found |-> FALSE, at |-> 0, row |-> NoRow, seen |-> 0,
     data |-> PyNone, expires_at |-> 0, ret |-> PyNone]

RaceInit ==
    /\ now = 0
    /\ vizTable \in {<<[UnsavedViz(cfg) EXCEPT !.id = PyInt(1), !.updated_at = PyInt(0)]>> :
                        cfg \in VizConfigs}
    /\ ivTable = <<>>
    /\ cache = <<>>
    /\ last = NoCall
    /\ procs = [p \in ProcIds |-> IdleProc]
    /\ applied = [n |-> 0, data |-> PyNone, expires_at |-> 0]

RaceKey == _generate_cache_key(vizTable[1])
notRaceVars == <<keyVars, indVars, aggVars, surveyVars, userVars, computeVars>>

(* a request arrives *)
StartEvaluate(p) ==
    /\ procs[p].pc \in {"idle", "done"}
    /\ procs[p].evals < MaxEvals
    /\ procs' = [procs EXCEPT ![p] = [IdleProc EXCEPT !.pc = "get", !.evals = procs[p].evals + 1]]
    /\ UNCHANGED <<now, vizTable, ivTable, cache, last, applied, notRaceVars>>

(* _get_from_cache: AnalyticsCache.objects.get(cache_key, expires_at__gt=now) *)
GetRead(p) ==
    /\ procs[p].pc = "get"
    /\ LET m == Matches(cache, RaceKey, now)
       IN procs' = [procs EXCEPT ![p] =
              IF m = {} THEN [@ EXCEPT !.pc = "compute", !.found = FALSE]
              ELSE IF Cardinality(m) > 1 THEN [@ EXCEPT !.pc = "raised"]
              ELSE [@ EXCEPT !.pc = "get_save", !.found = TRUE,
                             !.at = CHOOSE i \in m : TRUE,
                             !.row = cache[CHOOSE i \in m : TRUE],
                             !.seen = applied.n]]
    /\ UNCHANGED <<now, vizTable, ivTable, cache, last, applied, notRaceVars>>

(* _get_from_cache: cache.hit_count += 1; cache.save() writes every field of
   the instance that was read; then `if cached:` *)
GetSave(p) ==
    /\ procs[p].pc = "get_save"
    /\ cache' = [cache EXCEPT ![procs[p].at] =
                    [procs[p].row EXCEPT !.hit_count = procs[p].row.hit_count + 1]]
    /\ procs' = [procs EXCEPT ![p] =
            IF Truthy(procs[p].row.data)
            THEN [@ EXCEPT !.pc = "done", !.ret = procs[p].row.data]
            ELSE [@ EXCEPT !.pc = "compute"]]
    /\ UNCHANGED <<now, vizTable, ivTable, last, applied, notRaceVars>>

(* fetch, aggregate, format; then _save_to_cache reads the clock *)
ComputeStep(p) ==
    /\ procs[p].pc = "compute"
    /\ LET viz == vizTable[1]
           formatted == _format_for_visualization(
                            _aggregate_data(_fetch_data(viz.project_id, viz.dimensions,
                                                        viz.filters, ivTable), viz.layout),
                            viz.visualization_type, viz.display_options)
       IN procs' = [procs EXCEPT ![p] = [@ EXCEPT !.pc = "put", !.data = formatted,
                                                  !.expires_at = now + TTL]]
    /\ UNCHANGED <<now, vizTable, ivTable, cache, last, applied, notRaceVars>>

Defaults(p) ==
    [project_id |-> vizTable[1].project_id, visualization |-> 1,
     data |-> procs[p].data, expires_at |-> procs[p].expires_at]

(* update_or_create: the locked lookup by cache_key; a row that is found is
   updated from the defaults and saved within the same transaction *)
PutLookup(p) ==
    /\ procs[p].pc = "put"
    /\ IF KeyRows(cache, RaceKey) = {}
       THEN /\ procs' = [procs EXCEPT ![p].pc = "put_create"]
            /\ UNCHANGED <<cache, applied>>
       ELSE /\ cache' = update_or_create(cache, RaceKey, Defaults(p))
            /\ applied' = [n |-> applied.n + 1, data |-> procs[p].data,
                           expires_at |-> procs[p].expires_at]
            /\ procs' = [procs EXCEPT ![p] = [@ EXCEPT !.pc = "done", !.ret = procs[p].data]]
    /\ UNCHANGED <<now, vizTable, ivTable, last, notRaceVars>>

(* update_or_create: the INSERT after a lookup that found nothing *)
PutCreate(p) ==
    /\ procs[p].pc = "put_create"
    /\ cache' = InsertOrFetch(cache, RaceKey, Defaults(p))
    /\ applied' = [n |-> applied.n + 1, data |-> procs[p].data,
                   expires_at |-> procs[p].expires_at]
    /\ procs' = [procs EXCEPT ![p] = [@ EXCEPT !.pc = "done", !.ret = procs[p].data]]
    /\ UNCHANGED <<now, vizTable, ivTable, last, notRaceVars>>

SpecRaceInit ==
    RaceInit /\ KeyIdle /\ IndIdle /\ AggIdle /\ SurveyIdle /\ UserIdle /\ ComputeIdle
SpecRaceNext ==
    \/ Tick
    \/ \E ind \in IndicatorIds, s \in SurveyIds, v \in ValueChoices :
            CreateIndicatorValue(ind, s, v)
    \/ \E p \in ProcIds : StartEvaluate(p)
    \/ \E p \in ProcIds : GetRead(p)
    \/ \E p \in ProcIds : GetSave(p)
    \/ \E p \in ProcIds : ComputeStep(p)
    \/ \E p \in ProcIds : PutLookup(p)
    \/ \E p \in ProcIds : PutCreate(p)
SpecRace == SpecRaceInit /\ [][SpecRaceNext]_vars

----------------------------------------------------------------------------
(* Properties of concurrent evaluation *)

BothMissedOnce ==
    \A p \in ProcIds : procs[p].pc = "done" /\ procs[p].evals = 1 /\ ~procs[p].found

(* C25: when two callers evaluate the same saved visualization and both
   miss, both recompute and both upsert, and in every interleaving the
   store ends with exactly one row for the fingerprint, holding the data
   and expires_at of the upsert applied last; no interleaving of evaluate
   calls gives two rows the same cache_key. *)
C25_LastUpsertWins ==
    /\ UniqueKeys
    /\ BothMissedOnce =>
          /\ applied.n = 2
          /\ Cardinality(KeyRows(cache, RaceKey)) = 1
          /\ \A i \in KeyRows(cache, RaceKey) :
                cache[i].data = applied.data /\ cache[i].expires_at = applied.expires_at

C25_Witness ==
    /\ BothMissedOnce
    /\ Len(cache) = 1
    /\ procs[1].data # procs[2].data
    /\ procs[1].expires_at < procs[2].expires_at
    /\ cache[1].data = procs[1].data
    /\ cache[1].expires_at = procs[1].expires_at

(* the save that ends a hit leaves in the row what the upserts applied since
   the hit's read wrote *)
HitKeepsPut ==
    \A p \in ProcIds :
        (procs[p].pc = "get_save" /\ procs'[p].pc # "get_save" /\ applied.n > procs[p].seen) =>
            /\ cache'[procs[p].at].data = applied.data
            /\ cache'[procs[p].at].expires_at = applied.expires_at

(* C26: a hit changes hit_count only: when a get (read the row, increment,
   save) interleaves with a put for the same cache_key, the data and
   expires_at the put wrote are in the row after both finished. *)
C26_HitTouchesOnlyHitCount == [][HitKeepsPut]_vars

(* The failing case of C26: a finished hit whose save put back the expiry it
   had read, older than the one an upsert wrote meanwhile. *)
C26_PutLost ==
    \E p \in ProcIds :
        /\ procs[p].pc = "done" /\ procs[p].found
        /\ applied.n > procs[p].seen
        /\ cache[procs[p].at].expires_at = procs[p].row.expires_at
        /\ cache[procs[p].at].expires_at < applied.expires_at
        /\ cache[procs[p].at].hit_count = procs[p].row.hit_count + 1

====
